---------------------------- MODULE Spec2Model ----------------------------
(***************************************************************************)
(* A model of the Scheme evaluator of JouleJ/scheme: the value model       *)
(* (object.h, parser.cpp), the frames and their liveness counters          *)
(* (Scope, scheme.cpp) and the evaluator with its closures                 *)
(* (Interpreter::Eval, Lambda::Call).                                      *)
(*                                                                         *)
(* Objects owned through std::shared_ptr live in three maps keyed by an    *)
(* object id (scopes, lambdas, cells).  An object is destroyed exactly     *)
(* when its last owning reference disappears; std::weak_ptr references     *)
(* (Scope::parent_, Lambda::scope_) are ids that may name a destroyed      *)
(* object, and expired() is "the id is no longer in the map".              *)
(*                                                                         *)
(* The evaluator is recursive in the source and is modelled by recursive   *)
(* operators that thread the machine state `st` and return                 *)
(* [st, val, err].  The field st.pins lists the objects owned by C++       *)
(* locals and temporaries of the running evaluation, st.log is a history   *)
(* of the steps of the evaluation in progress.                             *)
(***************************************************************************)
EXTENDS Integers, Naturals, Sequences, FiniteSets, TLC

VARIABLES
    scopes,     \* id -> Scope  {parent_, variables_, refs_}
    lambdas,    \* id -> Lambda {arg_names_, scope_, expressions_, local_scopes_}
    cells,      \* id -> Cell   {first_, second_}
    fresh,      \* the next object id (an address never handed out before)
    freed,      \* history: the frames destroyed so far, as they were
    pool,       \* the programs the driver draws from
    last,       \* the outcome of the last operation of the driver
    log,        \* the history of the last operation
    runs        \* the number of operations run so far

vars == <<scopes, lambdas, cells, fresh, freed, pool, last, log, runs>>

-----------------------------------------------------------------------------
(* Bounds of the model *)

\* the number of operations the driver runs on one interpreter
MaxRuns == 3

\* arguments of the recursion test (fact n) range over 0..MaxFact
MaxFact == 5

-----------------------------------------------------------------------------
(* Values: std::shared_ptr<Object>.  Numbers, booleans and symbols carry no *)
(* identity that the language can see; pairs and closures are references to *)
(* heap objects.  A parsed list (a chain of Cells built by the reader) is    *)
(* kept as the sequence UnfoldList yields for it.                          *)

Val(t, n, s, k) == [t |-> t, n |-> n, s |-> s, k |-> k]

Nil == Val("nil", 0, "", <<>>)              \* nullptr, the empty list
Number(i) == Val("num", i, "", <<>>)
Boolean(b) == Val("bool", IF b THEN 1 ELSE 0, "", <<>>)
Symbol(name) == Val("sym", 0, name, <<>>)
Form(items) == Val("form", 0, "", items)     \* a non-empty parsed list
CellRef(id) == Val("cell", id, "", <<>>)
LambdaRef(id) == Val("lam", id, "", <<>>)

GetNumberConstant(i) == Number(i)
GetBooleanConstant(b) == Boolean(b)

\* the objects a value owns a reference to
Owned(v) == IF v.t \in {"cell", "lam"} THEN {v.n} ELSE {}

Range(f) == {f[x] : x \in DOMAIN f}

NoVariables == [x \in {} |-> Nil]

\* the root frame, owned by the top-level Interpreter
RootScope == 1

\* a default-constructed std::weak_ptr<Scope>
NoScope == 0

-----------------------------------------------------------------------------
(* Errors *)

Ok(st, v) == [st |-> st, val |-> v, err |-> "none"]
Throw(st, kind) == [st |-> st, val |-> Nil, err |-> kind]

\* FailEvaluation: always a RuntimeError
\* a FailEvaluation that reports the form as malformed
FailSyntax(st) == Throw(st, "SyntaxError")
FailEvaluation(st) == Throw(st, "RuntimeError")

-----------------------------------------------------------------------------
(* History *)

\* one step of an evaluation: the operation, the frame it ran in, the frame
\* (or object) it touched, the variable, the error raised, and the
\* bookkeeping set (local_scopes_) seen by a step of Lambda::Call
Event(op, scope, slot, name, err) ==
    [op |-> op, scope |-> scope, slot |-> slot, name |-> name, err |-> err,
     info |-> <<>>]
CallEvent(op, scope, lam, err, info) ==
    [op |-> op, scope |-> scope, slot |-> lam, name |-> "", err |-> err,
     info |-> info]

Note(st, ev) == [st EXCEPT !.log = Append(st.log, ev)]

\* The history also keeps the steps of Interpreter::Eval on a list: the
\* command found for the head ("Command", with the unevaluated list), the
\* value of the head of an application ("Head", with the value and the list),
\* an argument evaluated by the loop that began when the history had `slot`
\* events ("Arg", with its position, expression and value), and the call of
\* the closure ("Apply", with the closure and the values)

-----------------------------------------------------------------------------
(* Ownership: std::shared_ptr.  An object stays while some owner holds it:  *)
(* the top-level Interpreter (the root frame), a binding of a live frame,   *)
(* a field of a live pair, the local_scopes_ of a live closure, or a local  *)
(* of the running evaluation.                                               *)

Alive(st) == DOMAIN st.scopes \cup DOMAIN st.lambdas \cup DOMAIN st.cells

\* the objects with an owner outside the set D of objects being destroyed;
\* keep are the objects owned by a value in flight (a return value)
HeldOutside(st, D, keep) ==
    {RootScope} \cup keep \cup Range(st.pins)
    \cup UNION {UNION {Owned(st.scopes[s].variables[x]) :
                         x \in DOMAIN st.scopes[s].variables} :
                  s \in DOMAIN st.scopes \ D}
    \cup UNION {Owned(st.cells[c].first) \cup Owned(st.cells[c].second) :
                  c \in DOMAIN st.cells \ D}
    \cup UNION {Range(st.lambdas[l].local_scopes) : l \in DOMAIN st.lambdas \ D}

\* the cascade of destructors: an object whose every owner is being
\* destroyed is destroyed too; objects on a cycle of owners stay
RECURSIVE Doomed(_, _, _)
Doomed(st, D, keep) ==
    LET D2 == Alive(st) \ HeldOutside(st, D, keep)
    IN IF D2 \subseteq D THEN D ELSE Doomed(st, D \cup D2, keep)

\* Scope::AddRef / Scope::DelRef on the size_t counter refs_.  The counter
\* is kept as the representative nearest to zero of its value modulo 2^64:
\* -1 stands for SIZE_MAX.  GetRefs() <= 0 on the unsigned value is refs = 0.
\* counters that are not counted up, and counters that are not counted down
NoAddRef(st, sc) == st
NoDelRef(st, sc) == st
AddRef(st, sc) == [st EXCEPT !.scopes[sc].refs = st.scopes[sc].refs + 1]
DelRef(st, sc) == [st EXCEPT !.scopes[sc].refs = st.scopes[sc].refs - 1]
GetRefs(st, sc) == st.scopes[sc].refs

\* std::weak_ptr<Scope>::expired()
Expired(st, sc) == sc \notin DOMAIN st.scopes

\* Lambda::~Lambda for every closure of D, then the members go: a closure
\* whose defining frame still lives gives back its count on that frame
Destroy(st, D) ==
    LET dels(s) == Cardinality({l \in D \cap DOMAIN st.lambdas :
                                    st.lambdas[l].scope = s})
        left == DOMAIN st.scopes \ D
    IN [st EXCEPT
          !.scopes = [s \in left |->
                        [st.scopes[s] EXCEPT !.refs = st.scopes[s].refs - dels(s)]]
                     @@ <<>>,
          !.lambdas = [l \in DOMAIN st.lambdas \ D |-> st.lambdas[l]] @@ <<>>,
          !.cells = [c \in DOMAIN st.cells \ D |-> st.cells[c]] @@ <<>>,
          !.freed = [s \in D \cap DOMAIN st.scopes |->
                        [parent |-> st.scopes[s].parent,
                         variables |-> st.scopes[s].variables]]
                    @@ st.freed]

\* what the release of owning references leaves of the heap
Collect(st, keep) ==
    LET D == Doomed(st, {}, keep)
    IN IF D = {} THEN st ELSE Destroy(st, D)

\* a local or temporary of the running evaluation takes a reference
Pin(st, ids) == [st EXCEPT !.pins = st.pins \o ids]
PinVal(st, v) == IF Owned(v) = {} THEN st ELSE Pin(st, <<v.n>>)

\* the locals of a C++ scope go out of scope (return or unwinding): the
\* references taken since pins0 are released, the result r.val stays owned
Leave(r, pins0) ==
    [r EXCEPT !.st = Collect([r.st EXCEPT !.pins = pins0], Owned(r.val))]

-----------------------------------------------------------------------------
(* Scope (scheme.h, scheme.cpp) *)

NewScope(parent) == [parent |-> parent, variables |-> NoVariables, refs |-> 0]

\* Scope::FindVariable: the frame whose variables_ holds the slot found,
\* NoScope for nullptr
RECURSIVE FindVariable(_, _, _)
FindVariable(st, sc, name) ==
    IF name \in DOMAIN st.scopes[sc].variables THEN sc
    ELSE IF ~Expired(st, st.scopes[sc].parent)
         THEN FindVariable(st, st.scopes[sc].parent, name)
         ELSE NoScope

\* a lookup, for the history: the frame it started in, the frame whose
\* binding it returned, and the frames as they were
ReadEvent(sc, slot, name, err, st) ==
    [op |-> "GetVariable", scope |-> sc, slot |-> slot, name |-> name,
     err |-> err, info |-> <<st.scopes>>]

\* Scope::GetVariable
GetVariable(st, sc, name) ==
    LET ptr == FindVariable(st, sc, name)
    IN IF ptr # NoScope
       THEN Ok(Note(st, ReadEvent(sc, ptr, name, "none", st)),
               st.scopes[ptr].variables[name])
       ELSE Throw(Note(st, ReadEvent(sc, NoScope, name, "NameError", st)),
                  "NameError")

\* *ptr = value on a slot of frame sc: the old value is released
Assign(st, sc, name, value) ==
    Collect([st EXCEPT !.scopes[sc].variables[name] = value], {})

\* Scope::SetLocalVariable: std::map::insert keeps an existing entry
SetLocalVariable(st, sc, name, value) ==
    IF name \in DOMAIN st.scopes[sc].variables THEN st
    ELSE [st EXCEPT !.scopes[sc].variables = (name :> value) @@ st.scopes[sc].variables]

\* a write of a binding, for the history: the frame the operation ran in,
\* the frame written, the frames before and after, and the value written
WriteEvent(op, sc, slot, name, err, before, after, value) ==
    [op |-> op, scope |-> sc, slot |-> slot, name |-> name, err |-> err,
     info |-> <<before.scopes, after.scopes, value>>]

\* a SetVariable that inserts like std::map::insert and so keeps the value
\* of a name already bound
SetVariableKeepsOld(st, sc, name, value) ==
    LET st1 == SetLocalVariable(st, sc, name, value)
    IN Note(st1, WriteEvent("SetVariable", sc, sc, name, "none", st, st1, value))

\* Scope::SetVariable
SetVariable(st, sc, name, value) ==
    LET ptr == FindVariable(st, sc, name)
        st1 == IF ptr # NoScope
               THEN Assign(st, ptr, name, value)
               ELSE SetLocalVariable(st, sc, name, value)
    IN Note(st1, WriteEvent("SetVariable", sc,
                            IF ptr # NoScope THEN ptr ELSE sc, name, "none",
                            st, st1, value))

-----------------------------------------------------------------------------
(* Helpers of scheme.cpp *)

\* args[i] of the source (args[0] is the head of the form)
Arg(args, i) == args[i + 1]

\* UnfoldList on a chain of heap pairs; a chain that comes back to a pair
\* already visited never ends
RECURSIVE UnfoldCells(_, _, _)
UnfoldCells(st, object, seen) ==
    IF object.t = "nil" THEN [err |-> "none", items |-> <<>>]
    ELSE IF object.t = "form" THEN [err |-> "none", items |-> object.k]
    ELSE IF object.t # "cell" THEN [err |-> "RuntimeError", items |-> <<>>]
    ELSE IF object.n \in seen THEN [err |-> "diverges", items |-> <<>>]
    ELSE LET rest == UnfoldCells(st, st.cells[object.n].second,
                                 seen \cup {object.n})
         IN IF rest.err # "none" THEN rest
            ELSE [err |-> "none",
                  items |-> <<st.cells[object.n].first>> \o rest.items]

\* UnfoldList
UnfoldList(st, object) == UnfoldCells(st, object, {})

\* SymbolToName over a list: the names, or a RuntimeError
AllSymbols(items) == \A i \in DOMAIN items : items[i].t = "sym"
RECURSIVE Names(_)
Names(items) ==
    IF items = <<>> THEN <<>> ELSE <<Head(items).s>> \o Names(Tail(items))

\* AsBoolean
AsBoolean(object) == ~(object.t = "bool" /\ object.n = 0)

\* Not
Not(object) == GetBooleanConstant(~AsBoolean(object))

\* a closure that captures the root frame whatever frame it is made in
NewLambdaAtRoot(st, sc, arg_names, expressions) ==
    LET id == st.fresh
        st1 == [st EXCEPT
                  !.lambdas = (id :> [arg_names |-> arg_names,
                                      scope |-> RootScope,
                                      expressions |-> expressions,
                                      local_scopes |-> <<>>])
                              @@ st.lambdas,
                  !.fresh = st.fresh + 1]
    IN [st |-> Note(AddRef(st1, RootScope), Event("Lambda", sc, id, "", "none")),
        id |-> id]

\* new Lambda(arg_names, scope_, expressions): the constructor counts the
\* closure on its defining frame when that frame is alive
NewLambda(st, sc, arg_names, expressions) ==
    LET id == st.fresh
        st1 == [st EXCEPT
                  !.lambdas = (id :> [arg_names |-> arg_names, scope |-> sc,
                                      expressions |-> expressions,
                                      local_scopes |-> <<>>])
                              @@ st.lambdas,
                  !.fresh = st.fresh + 1]
    IN [st |-> Note(IF ~Expired(st1, sc) THEN AddRef(st1, sc) ELSE st1,
                    Event("Lambda", sc, id, "", "none")),
        id |-> id]

\* new Cell(first, second)
NewCell(st, first, second) ==
    [st |-> [st EXCEPT !.cells = (st.fresh :> [first |-> first,
                                               second |-> second])
                                     @@ st.cells,
                       !.fresh = st.fresh + 1],
     id |-> st.fresh]

-----------------------------------------------------------------------------
(* Arithmetic and comparison (parser.cpp) *)

\* Add, Subtract, Multiply, Divide: a RuntimeError unless both are Numbers;
\* the programs of the model keep the results far inside int64_t
TruncDiv(a, b) ==
    LET q == (IF a < 0 THEN -a ELSE a) \div (IF b < 0 THEN -b ELSE b)
    IN IF (a < 0) = (b < 0) THEN q ELSE -q

Arith(op, st, lhs, rhs) ==
    IF lhs.t # "num" \/ rhs.t # "num" THEN Throw(st, "RuntimeError")
    ELSE IF op = "+" THEN Ok(st, GetNumberConstant(lhs.n + rhs.n))
    ELSE IF op = "-" THEN Ok(st, GetNumberConstant(lhs.n - rhs.n))
    ELSE IF op = "*" THEN Ok(st, GetNumberConstant(lhs.n * rhs.n))
    ELSE IF rhs.n = 0 THEN Throw(st, "RuntimeError")
    ELSE Ok(st, GetNumberConstant(TruncDiv(lhs.n, rhs.n)))

\* result = Op(result, args[i]) for i = from .. n-1
RECURSIVE FoldArith(_, _, _, _, _)
FoldArith(op, st, result, vals, from) ==
    IF from > Len(vals) THEN Ok(st, result)
    ELSE LET r == Arith(op, st, result, vals[from])
         IN IF r.err # "none" THEN r
            ELSE FoldArith(op, st, r.val, vals, from + 1)

\* Less: "Cannot compare" is a NameError
Less(lhs, rhs) ==
    IF lhs.t # "num" \/ rhs.t # "num"
    THEN [err |-> "NameError", b |-> FALSE]
    ELSE [err |-> "none", b |-> lhs.n < rhs.n]

-----------------------------------------------------------------------------
(* The evaluator (scheme.cpp) *)

RECURSIVE Eval(_, _, _)

\* for (i = 1; i < n; ++i) args[i] = Eval(args[i]): the values, each owned
\* by the vector args until the command returns.  EvalAll is the loop over
\* exprs: the iterations before the last one, then the last one
RECURSIVE EvalAll(_, _, _)

\* a loop that stores the values from the last argument to the first
StoreArgReversed(a, r, ev) ==
    IF r.err # "none"
    THEN [st |-> Note(r.st, ev), vals |-> a.vals, err |-> r.err]
    ELSE [st |-> PinVal(Note(r.st, ev), r.val), vals |-> <<r.val>> \o a.vals,
          err |-> "none"]

\* args[i] = value, the outcome r of Eval(expr); ev is the step for the
\* history
StoreArg(a, r, ev) ==
    IF r.err # "none"
    THEN [st |-> Note(r.st, ev), vals |-> a.vals, err |-> r.err]
    ELSE [st |-> PinVal(Note(r.st, ev), r.val), vals |-> Append(a.vals, r.val),
          err |-> "none"]

\* Eval(expr) and its step: the argument at position Len(a.vals) + 1
Evaluated(a, r, sc, expr, owner) ==
    StoreArg(a, r, CallEvent("Arg", sc, owner, r.err,
                          <<Len(a.vals) + 1, expr, r.val>>))

\* one iteration, after the iterations that gave a
EvalArg(a, sc, expr, owner) ==
    IF a.err # "none" THEN a
    ELSE Evaluated(a, Eval(a.st, sc, expr), sc, expr, owner)

EvalAll(st, sc, exprs) ==
    IF exprs = <<>> THEN [st |-> st, vals |-> <<>>, err |-> "none"]
    ELSE EvalArg(EvalAll(st, sc, SubSeq(exprs, 1, Len(exprs) - 1)), sc,
                 exprs[Len(exprs)], Len(st.log))

\* a loop that evaluates the operands and leaves their types to the relation
EvalUnchecked(st, sc, exprs, vals) ==
    LET a == EvalAll(st, sc, exprs)
    IN [st |-> a.st, vals |-> vals \o a.vals, err |-> a.err]

\* the same loop with the Number check of the comparisons after each Eval
RECURSIVE EvalNumbers(_, _, _, _)
EvalNumbers(st, sc, exprs, vals) ==
    IF exprs = <<>> THEN [st |-> st, vals |-> vals, err |-> "none"]
    ELSE LET r == Eval(st, sc, Head(exprs))
         IN IF r.err # "none" THEN [st |-> r.st, vals |-> vals, err |-> r.err]
            ELSE IF r.val.t # "num"
                 THEN [st |-> PinVal(r.st, r.val), vals |-> vals,
                       err |-> "RuntimeError"]
                 ELSE EvalNumbers(r.st, sc, Tail(exprs), Append(vals, r.val))

\* quote
CmdQuote(st, sc, args) ==
    IF Len(args) # 2 THEN FailEvaluation(st) ELSE Ok(st, Arg(args, 1))

\* dynamic_cast<Cell*>: a heap pair or a parsed list
IsCell(v) == v.t \in {"cell", "form"}
GetFirst(st, v) == IF v.t = "form" THEN v.k[1] ELSE st.cells[v.n].first
GetSecond(st, v) ==
    IF v.t = "form"
    THEN (IF Len(v.k) = 1 THEN Nil ELSE Form(Tail(v.k)))
    ELSE st.cells[v.n].second

\* CheckTypeCommand<T>
CheckTypeCommand(type, st, sc, args) ==
    IF Len(args) # 2 THEN FailEvaluation(st)
    ELSE LET r == Eval(st, sc, Arg(args, 1))
         IN IF r.err # "none" THEN r
            ELSE Leave(Ok(r.st, GetBooleanConstant(
                        IF type = "pair?" THEN IsCell(r.val)
                        ELSE IF type = "number?" THEN r.val.t = "num"
                        ELSE IF type = "boolean?" THEN r.val.t = "bool"
                        ELSE r.val.t = "sym")), st.pins)

\* Equal, Cell::IsEqualTo, Lambda::IsEqualTo ...: "true", "false", or
\* "diverges" when the recursion comes back to a comparison it is inside of
RECURSIVE EqualRec(_, _, _, _)
EqualRec(st, lhs, rhs, path) ==
    IF lhs.t = "nil" \/ rhs.t = "nil"
    THEN (IF lhs.t = "nil" /\ rhs.t = "nil" THEN "true" ELSE "false")
    ELSE IF lhs.t = "num"
    THEN (IF rhs.t = "num" /\ rhs.n = lhs.n THEN "true" ELSE "false")
    ELSE IF lhs.t = "bool"
    THEN (IF rhs.t = "bool" /\ rhs.n = lhs.n THEN "true" ELSE "false")
    ELSE IF lhs.t = "sym"
    THEN (IF rhs.t = "sym" /\ rhs.s = lhs.s THEN "true" ELSE "false")
    ELSE IF lhs.t = "lam"
    THEN (IF rhs.t = "lam" /\ rhs.n = lhs.n THEN "true" ELSE "false")
    ELSE IF ~IsCell(rhs) THEN "false"
    ELSE IF <<lhs, rhs>> \in path THEN "diverges"
    ELSE LET p2 == path \cup {<<lhs, rhs>>}
             f == EqualRec(st, GetFirst(st, lhs), GetFirst(st, rhs), p2)
         IN IF f # "true" THEN f
            ELSE EqualRec(st, GetSecond(st, lhs), GetSecond(st, rhs), p2)

Equal(st, lhs, rhs) == EqualRec(st, lhs, rhs, {})

\* LessOrEqual, Greater, GreaterOrEqual on top of Less and Equal
LessOrEqual(st, lhs, rhs) ==
    LET l == Less(lhs, rhs)
    IN IF l.err # "none" \/ l.b THEN l
       ELSE [err |-> "none", b |-> Equal(st, lhs, rhs) = "true"]

Relation(op, st, lhs, rhs) ==
    IF op = "=" THEN [err |-> "none", b |-> Equal(st, lhs, rhs) = "true"]
    ELSE IF op = "<" THEN Less(lhs, rhs)
    ELSE IF op = ">" THEN Less(rhs, lhs)
    ELSE IF op = "<=" THEN LessOrEqual(st, lhs, rhs)
    ELSE LessOrEqual(st, rhs, lhs)

\* for (i = 2; i < n; ++i) if (!Rel(args[i - 1], args[i])) return false;
\* "=" compares every argument with args[1]
RECURSIVE CompareChain(_, _, _, _)
CompareChain(op, st, vals, i) ==
    IF i > Len(vals) THEN Ok(st, GetBooleanConstant(TRUE))
    ELSE LET r == Relation(op, st, IF op = "=" THEN vals[1] ELSE vals[i - 1],
                           vals[i])
         IN IF r.err # "none" THEN Throw(st, r.err)
            ELSE IF ~r.b THEN Ok(st, GetBooleanConstant(FALSE))
            ELSE CompareChain(op, st, vals, i + 1)

\* "=", "<", ">", "<=", ">="
CmdCompare(op, st, sc, args) ==
    LET a == EvalNumbers(st, sc, Tail(args), <<>>)
    IN IF a.err # "none" THEN Leave(Throw(a.st, a.err), st.pins)
       ELSE Leave(CompareChain(op, a.st, a.vals, 2), st.pins)

\* "+", "-", "*", "/"
CmdArith(op, st, sc, args) ==
    LET a == EvalAll(st, sc, Tail(args))
    IN IF a.err # "none" THEN Leave(Throw(a.st, a.err), st.pins)
       ELSE IF op = "+"
       THEN Leave(FoldArith(op, a.st, GetNumberConstant(0), a.vals, 1), st.pins)
       ELSE IF op = "*"
       THEN Leave(FoldArith(op, a.st, GetNumberConstant(1), a.vals, 1), st.pins)
       ELSE IF Len(args) <= 1 THEN Leave(FailEvaluation(a.st), st.pins)
       ELSE Leave(FoldArith(op, a.st, a.vals[1], a.vals, 2), st.pins)

\* not
CmdNot(st, sc, args) ==
    LET a == EvalAll(st, sc, Tail(args))
    IN IF a.err # "none" THEN Leave(Throw(a.st, a.err), st.pins)
       ELSE IF Len(args) # 2 THEN Leave(FailEvaluation(a.st), st.pins)
       ELSE Leave(Ok(a.st, Not(a.vals[1])), st.pins)

\* and / or: evaluation stops at the first value that decides
RECURSIVE AndOr(_, _, _, _, _, _)
AndOr(isAnd, st, sc, exprs, lastVal, pins0) ==
    IF exprs = <<>> THEN Leave(Ok(st, lastVal), pins0)
    ELSE LET r == Eval(st, sc, Head(exprs))
         IN IF r.err # "none" THEN Leave(r, pins0)
            ELSE IF AsBoolean(r.val) # isAnd THEN Leave(r, pins0)
            ELSE AndOr(isAnd, PinVal(r.st, r.val), sc, Tail(exprs), r.val, pins0)

CmdAnd(st, sc, args) ==
    AndOr(TRUE, st, sc, Tail(args), GetBooleanConstant(TRUE), st.pins)
CmdOr(st, sc, args) ==
    AndOr(FALSE, st, sc, Tail(args), GetBooleanConstant(FALSE), st.pins)

\* min / max
RECURSIVE Extremum(_, _, _, _)
Extremum(isMin, result, vals, i) ==
    IF i > Len(vals) THEN result
    ELSE Extremum(isMin,
                  IF (isMin /\ vals[i].n < result.n)
                     \/ (~isMin /\ result.n < vals[i].n)
                  THEN vals[i] ELSE result,
                  vals, i + 1)

CmdMinMax(isMin, st, sc, args) ==
    LET a == EvalAll(st, sc, Tail(args))
    IN IF a.err # "none" THEN Leave(Throw(a.st, a.err), st.pins)
       ELSE IF Len(args) <= 1 THEN Leave(FailEvaluation(a.st), st.pins)
       ELSE IF \E i \in DOMAIN a.vals : a.vals[i].t # "num"
       THEN Leave(FailEvaluation(a.st), st.pins)
       ELSE Leave(Ok(a.st, Extremum(isMin, a.vals[1], a.vals, 2)), st.pins)

\* abs
CmdAbs(st, sc, args) ==
    LET a == EvalAll(st, sc, Tail(args))
    IN IF a.err # "none" THEN Leave(Throw(a.st, a.err), st.pins)
       ELSE IF Len(args) # 2 THEN Leave(FailEvaluation(a.st), st.pins)
       ELSE IF a.vals[1].t # "num" THEN Leave(FailEvaluation(a.st), st.pins)
       ELSE IF a.vals[1].n >= 0 THEN Leave(Ok(a.st, a.vals[1]), st.pins)
       ELSE Leave(Ok(a.st, GetNumberConstant(-a.vals[1].n)), st.pins)

\* null?
CmdNull(st, sc, args) ==
    LET a == EvalAll(st, sc, Tail(args))
    IN IF a.err # "none" THEN Leave(Throw(a.st, a.err), st.pins)
       ELSE IF Len(args) # 2 THEN Leave(FailEvaluation(a.st), st.pins)
       ELSE Leave(Ok(a.st, GetBooleanConstant(a.vals[1].t = "nil")), st.pins)

\* list?: the loop of the source never ends on a chain that closes on itself
CmdIsList(st, sc, args) ==
    LET a == EvalAll(st, sc, Tail(args))
    IN IF a.err # "none" THEN Leave(Throw(a.st, a.err), st.pins)
       ELSE IF Len(args) # 2 THEN Leave(FailEvaluation(a.st), st.pins)
       ELSE LET u == UnfoldList(a.st, a.vals[1])
            IN IF u.err = "diverges" THEN Leave(Throw(a.st, "diverges"), st.pins)
               ELSE Leave(Ok(a.st, GetBooleanConstant(u.err = "none")), st.pins)

\* cons
CmdCons(st, sc, args) ==
    LET a == EvalAll(st, sc, Tail(args))
    IN IF a.err # "none" THEN Leave(Throw(a.st, a.err), st.pins)
       ELSE IF Len(args) # 3 THEN Leave(FailEvaluation(a.st), st.pins)
       ELSE LET c == NewCell(a.st, a.vals[1], a.vals[2])
            IN Leave(Ok(c.st, CellRef(c.id)), st.pins)

\* car / cdr
CmdCarCdr(isCar, st, sc, args) ==
    LET a == EvalAll(st, sc, Tail(args))
    IN IF a.err # "none" THEN Leave(Throw(a.st, a.err), st.pins)
       ELSE IF Len(args) # 2 THEN Leave(FailEvaluation(a.st), st.pins)
       ELSE IF ~IsCell(a.vals[1]) THEN Leave(FailEvaluation(a.st), st.pins)
       ELSE Leave(Ok(a.st, IF isCar THEN GetFirst(a.st, a.vals[1])
                                    ELSE GetSecond(a.st, a.vals[1])), st.pins)

\* list: for (i = n - 1; i > 0; --i) result = new Cell(args[i], result)
RECURSIVE BuildList(_, _, _, _)
BuildList(st, vals, i, result) ==
    IF i = 0 THEN [st |-> st, val |-> result]
    ELSE LET c == NewCell(st, vals[i], result)
         IN BuildList(c.st, vals, i - 1, CellRef(c.id))

CmdList(st, sc, args) ==
    LET a == EvalAll(st, sc, Tail(args))
    IN IF a.err # "none" THEN Leave(Throw(a.st, a.err), st.pins)
       ELSE LET b == BuildList(a.st, a.vals, Len(a.vals), Nil)
            IN Leave(Ok(b.st, b.val), st.pins)

\* list-ref: a negative index is a huge size_t
CmdListRef(st, sc, args) ==
    LET a == EvalAll(st, sc, Tail(args))
    IN IF a.err # "none" THEN Leave(Throw(a.st, a.err), st.pins)
       ELSE IF Len(args) # 3 THEN Leave(FailEvaluation(a.st), st.pins)
       ELSE LET u == UnfoldList(a.st, a.vals[1])
            IN IF u.err = "diverges" THEN Leave(Throw(a.st, "diverges"), st.pins)
               ELSE IF u.err # "none" THEN Leave(FailEvaluation(a.st), st.pins)
               ELSE IF a.vals[2].t # "num" THEN Leave(FailEvaluation(a.st), st.pins)
               ELSE IF a.vals[2].n < 0 \/ a.vals[2].n >= Len(u.items)
               THEN Leave(FailEvaluation(a.st), st.pins)
               ELSE Leave(Ok(a.st, u.items[a.vals[2].n + 1]), st.pins)

\* list-tail: object = cell->GetSecond(), to_drop times
RECURSIVE DropCells(_, _, _)
DropCells(st, object, to_drop) ==
    IF to_drop = 0 THEN [err |-> "none", val |-> object]
    ELSE IF ~IsCell(object) THEN [err |-> "RuntimeError", val |-> Nil]
    ELSE DropCells(st, GetSecond(st, object), to_drop - 1)

\* a negative count is a huge size_t: the walk runs out of pairs, or goes
\* round a chain that closes on itself (for longer than the model follows)
CmdListTail(st, sc, args) ==
    LET a == EvalAll(st, sc, Tail(args))
    IN IF a.err # "none" THEN Leave(Throw(a.st, a.err), st.pins)
       ELSE IF Len(args) # 3 THEN Leave(FailEvaluation(a.st), st.pins)
       ELSE IF a.vals[2].t # "num" THEN Leave(FailEvaluation(a.st), st.pins)
       ELSE IF a.vals[2].n < 0
       THEN (IF UnfoldList(a.st, a.vals[1]).err = "diverges"
             THEN Leave(Throw(a.st, "diverges"), st.pins)
             ELSE Leave(FailEvaluation(a.st), st.pins))
       ELSE LET d == DropCells(a.st, a.vals[1], a.vals[2].n)
            IN IF d.err # "none" THEN Leave(FailEvaluation(a.st), st.pins)
               ELSE Leave(Ok(a.st, d.val), st.pins)

-----------------------------------------------------------------------------
(* Special forms (scheme.cpp) *)

\* define
CmdDefine(st, sc, args) ==
    LET n == Len(args)
    IN IF n <= 1 THEN Throw(st, "SyntaxError")
       ELSE IF Arg(args, 1).t = "sym"
       THEN IF n # 3 THEN Throw(st, "SyntaxError")
            ELSE LET name == Arg(args, 1).s
                     \* to make variable visible inside its own scope
                     st1 == SetVariable(st, sc, name, Nil)
                     r == Eval(st1, sc, Arg(args, 2))
                 IN IF r.err # "none" THEN r
                    ELSE Ok(SetVariable(r.st, sc, name, r.val), Nil)
       ELSE IF n < 3 THEN Throw(st, "SyntaxError")
       ELSE LET u == UnfoldList(st, Arg(args, 1))
            IN IF u.err = "diverges" THEN Throw(st, "diverges")
               ELSE IF u.err # "none" THEN Throw(st, "SyntaxError")
               \* `throw;` with no exception in flight: std::terminate
               ELSE IF Len(u.items) = 0 THEN Throw(st, "terminate")
               ELSE IF ~AllSymbols(u.items) THEN Throw(st, "SyntaxError")
               ELSE LET func_name == u.items[1].s
                        arg_names == Names(Tail(u.items))
                        expressions == SubSeq(args, 3, n)
                        st1 == SetVariable(st, sc, func_name, Nil)
                        func == NewLambda(st1, sc, arg_names, expressions)
                    IN Ok(SetVariable(func.st, sc, func_name,
                                      LambdaRef(func.id)), Nil)

\* set!
CmdSet(st, sc, args) ==
    IF Len(args) # 3 THEN Throw(st, "SyntaxError")
    ELSE IF Arg(args, 1).t # "sym" THEN Throw(st, "SyntaxError")
    ELSE LET name == Arg(args, 1).s
             r == Eval(st, sc, Arg(args, 2))
         IN IF r.err # "none" THEN r
            ELSE LET ptr == FindVariable(r.st, sc, name)
                 IN IF ptr = NoScope
                    THEN LET st2 == Leave(Throw(r.st, "NameError"), st.pins).st
                         IN Throw(Note(st2, WriteEvent("set!", sc, NoScope, name,
                                                       "NameError", r.st, st2,
                                                       r.val)),
                                  "NameError")
                    ELSE LET st2 == Assign(r.st, ptr, name, r.val)
                         IN Ok(Note(st2, WriteEvent("set!", sc, ptr, name,
                                                    "none", r.st, st2,
                                                    r.val)), Nil)

\* set-car! / set-cdr!: cell->SetFirst(value) / cell->SetSecond(value) on the
\* pair a variable holds.  A parsed list is part of the program text, which
\* the model keeps immutable: the programs of the model mutate heap pairs only
CmdSetCarCdr(isCar, st, sc, args) ==
    IF Len(args) # 3 THEN Throw(st, "SyntaxError")
    ELSE IF Arg(args, 1).t # "sym" THEN Throw(st, "SyntaxError")
    ELSE LET name == Arg(args, 1).s
             r == Eval(st, sc, Arg(args, 2))
         IN IF r.err # "none" THEN r
            ELSE LET ptr == FindVariable(r.st, sc, name)
                 IN IF ptr = NoScope THEN Leave(Throw(r.st, "NameError"), st.pins)
                    ELSE LET cell == r.st.scopes[ptr].variables[name]
                         IN IF ~IsCell(cell)
                            THEN Leave(Throw(r.st, "RuntimeError"), st.pins)
                            ELSE IF cell.t = "form"
                            THEN Leave(Throw(r.st, "ProgramTextMutated"), st.pins)
                            ELSE IF isCar
                            THEN Ok(Collect([r.st EXCEPT
                                       !.cells[cell.n].first = r.val], {}), Nil)
                            ELSE Ok(Collect([r.st EXCEPT
                                       !.cells[cell.n].second = r.val], {}), Nil)

\* lambda
CmdLambda(st, sc, args) ==
    IF Len(args) < 3 THEN Throw(st, "SyntaxError")
    ELSE LET u == UnfoldList(st, Arg(args, 1))
         IN IF u.err = "diverges" THEN Throw(st, "diverges")
            ELSE IF u.err # "none" \/ ~AllSymbols(u.items)
            THEN Throw(st, "SyntaxError")
            ELSE LET lambda == NewLambda(st, sc, Names(u.items),
                                         SubSeq(args, 3, Len(args)))
                 IN Ok(lambda.st, LambdaRef(lambda.id))

\* if
CmdIf(st, sc, args) ==
    LET n == Len(args)
        wellFormed == n = 3 \/ n = 4
        c == Eval(st, sc, Arg(args, 1))
        evaluated == wellFormed /\ c.err = "none"
        condition == AsBoolean(c.val)
        st1 == Leave(Ok(c.st, Nil), st.pins).st
    IN CASE ~wellFormed -> Throw(st, "SyntaxError")
         [] wellFormed /\ c.err # "none" -> c
         [] evaluated /\ condition -> Eval(st1, sc, Arg(args, 2))
         [] evaluated /\ ~condition /\ n = 3 -> Ok(st1, Nil)
         [] evaluated /\ ~condition /\ n = 4 -> Eval(st1, sc, Arg(args, 3))

\* keys of commands_ that a binding of the root frame would take away
CommandNamesUnlessBound ==
    {"quote", "number?", "boolean?", "pair?", "symbol?", "=", "<", ">", "<=",
     ">=", "+", "-", "*", "/", "not", "and", "or", "min", "max", "abs",
     "null?", "list?", "cons", "car", "cdr", "list", "list-ref", "list-tail",
     "define", "set!", "set-car!", "set-cdr!", "lambda", "if"}
    \ DOMAIN scopes[RootScope].variables

\* the keys of commands_ (Interpreter::InitCommands)
CommandNames ==
    {"quote", "number?", "boolean?", "pair?", "symbol?", "=", "<", ">", "<=",
     ">=", "+", "-", "*", "/", "not", "and", "or", "min", "max", "abs",
     "null?", "list?", "cons", "car", "cdr", "list", "list-ref", "list-tail",
     "define", "set!", "set-car!", "set-cdr!", "lambda", "if"}

\* (iter->second)(list)
Command(name, st, sc, list) ==
    CASE name = "quote" -> CmdQuote(st, sc, list)
      [] name \in {"number?", "boolean?", "pair?", "symbol?"} ->
            CheckTypeCommand(name, st, sc, list)
      [] name \in {"=", "<", ">", "<=", ">="} -> CmdCompare(name, st, sc, list)
      [] name \in {"+", "-", "*", "/"} -> CmdArith(name, st, sc, list)
      [] name = "not" -> CmdNot(st, sc, list)
      [] name = "and" -> CmdAnd(st, sc, list)
      [] name = "or" -> CmdOr(st, sc, list)
      [] name = "min" -> CmdMinMax(TRUE, st, sc, list)
      [] name = "max" -> CmdMinMax(FALSE, st, sc, list)
      [] name = "abs" -> CmdAbs(st, sc, list)
      [] name = "null?" -> CmdNull(st, sc, list)
      [] name = "list?" -> CmdIsList(st, sc, list)
      [] name = "cons" -> CmdCons(st, sc, list)
      [] name = "car" -> CmdCarCdr(TRUE, st, sc, list)
      [] name = "cdr" -> CmdCarCdr(FALSE, st, sc, list)
      [] name = "list" -> CmdList(st, sc, list)
      [] name = "list-ref" -> CmdListRef(st, sc, list)
      [] name = "list-tail" -> CmdListTail(st, sc, list)
      [] name = "define" -> CmdDefine(st, sc, list)
      [] name = "set!" -> CmdSet(st, sc, list)
      [] name = "set-car!" -> CmdSetCarCdr(TRUE, st, sc, list)
      [] name = "set-cdr!" -> CmdSetCarCdr(FALSE, st, sc, list)
      [] name = "lambda" -> CmdLambda(st, sc, list)
      [] name = "if" -> CmdIf(st, sc, list)

-----------------------------------------------------------------------------
(* Closures (parser.cpp) *)

\* local_scope->SetLocalVariable(arg_names_[i], args[i]) for i = 0 .. n-1
RECURSIVE BindArgs(_, _, _, _, _)
BindArgs(st, sc, arg_names, args, i) ==
    IF i > Len(arg_names) THEN st
    ELSE BindArgs(SetLocalVariable(st, sc, arg_names[i], args[i]),
                  sc, arg_names, args, i + 1)

\* for (expression : expressions_) result = interpreter.Eval(expression):
\* the first n iterations.  The value of an iteration is owned by result
\* until the next one replaces it
RECURSIVE EvalBody(_, _, _, _, _)

\* one iteration, after the iterations that gave r
EvalExpression(r, sc, expression, pinsB) ==
    IF r.err # "none" THEN r
    ELSE Eval(Collect(PinVal([r.st EXCEPT !.pins = pinsB], r.val), {}),
              sc, expression)

EvalBody(st, sc, expressions, n, pinsB) ==
    IF n = 0 THEN Ok(st, Nil)
    ELSE EvalExpression(EvalBody(st, sc, expressions, n - 1, pinsB), sc,
                        expressions[n], pinsB)

\* a pruning step that removes no frame
Unpruned(st, local_scopes) == local_scopes

\* the frames remove_if leaves in local_scopes_
Pruned(st, local_scopes) ==
    LET Stays(ptr) == ~(GetRefs(st, ptr) = 0)
    IN SelectSeq(local_scopes, Stays)

\* std::shared_ptr<Scope> local_scope(new Scope(scope_)): the new frame is
\* st.fresh
AllocateScope(st, lam) ==
    Note(Pin([st EXCEPT
                !.scopes = (st.fresh :> NewScope(st.lambdas[lam].scope))
                           @@ st.scopes,
                !.fresh = st.fresh + 1], <<st.fresh>>),
         CallEvent("Call", st.fresh, lam,
                   IF Expired(st, st.lambdas[lam].scope)
                   THEN "expired" ELSE "none",
                   st.lambdas[lam].local_scopes))

\* remove_if / erase / push_back.  The history keeps what remove_if saw:
\* local_scopes_, the counter of each of its frames, and the heap
PushScope(st, lam, local_scope) ==
    Collect([Note(st, CallEvent("Prune", local_scope, lam, "none",
                    <<st.lambdas[lam].local_scopes,
                      [i \in DOMAIN st.lambdas[lam].local_scopes |->
                          GetRefs(st, st.lambdas[lam].local_scopes[i])] @@ <<>>,
                      [scopes |-> st.scopes, lambdas |-> st.lambdas,
                       cells |-> st.cells, pins |-> st.pins]>>))
             EXCEPT !.lambdas[lam].local_scopes =
               Append(Pruned(st, st.lambdas[lam].local_scopes), local_scope)],
            {})

NoteCall(op, st, lam, local_scope, err) ==
    Note(st, CallEvent(op, local_scope, lam, err, st.lambdas[lam].local_scopes))

\* Interpreter interpreter(local_scope) and the loop over expressions_
RunBody(st, lam, local_scope) ==
    EvalBody(st, local_scope, st.lambdas[lam].expressions,
             Len(st.lambdas[lam].expressions), st.pins)

\* Interpreter::~Interpreter, on return and on unwinding
LeaveBody(r, lam, local_scope) ==
    [r EXCEPT !.st = NoteCall("Return", DelRef(r.st, local_scope), lam,
                              local_scope, r.err)]

\* the rest of Lambda::Call once local_scope is registered.  local_scope is
\* released with the locals of the Eval that called
CallInScope(st, lam, args, local_scope) ==
    IF Len(args) # Len(st.lambdas[lam].arg_names)
    THEN Throw(NoteCall("ArityError", st, lam, local_scope, "RuntimeError"),
               "RuntimeError")
    ELSE LeaveBody(
            RunBody(NoteCall("Body",
                             AddRef(BindArgs(st, local_scope,
                                             st.lambdas[lam].arg_names, args, 1),
                                    local_scope),
                             lam, local_scope, "none"),
                    lam, local_scope),
            lam, local_scope)

\* Lambda::Call
Call(st, lam, args) ==
    CallInScope(NoteCall("Registered",
                         PushScope(AllocateScope(st, lam), lam, st.fresh),
                         lam, st.fresh, "none"),
                lam, args, st.fresh)

-----------------------------------------------------------------------------
(* ToString (parser.cpp).  A std::string is a sequence of pieces: a piece   *)
(* is one character, or the characters of a digit, a name or a keyword,     *)
(* which no operation takes apart.                                          *)

\* Number::ToString: std::to_string(value_)
RECURSIVE NumberToString(_)
NumberToString(n) ==
    LET Digit == <<"0", "1", "2", "3", "4", "5", "6", "7", "8", "9">>
    IN IF n < 0 THEN <<"-">> \o NumberToString(0 - n)
       ELSE IF n < 10 THEN <<Digit[n + 1]>>
       ELSE NumberToString(n \div 10) \o <<Digit[(n % 10) + 1]>>

RECURSIVE ObjectToString(_, _, _)

\* ListToString: the loop from object on, and the closing bracket.  seen are
\* the pairs the rendering is inside of: on a pair that is part of itself
\* the loop does not end
RECURSIVE ListToString(_, _, _, _)
ListToString(st, object, first, seen) ==
    IF object.t = "nil" THEN <<")">>
    ELSE IF ~IsCell(object)
    THEN <<" ", ".", " ">> \o ObjectToString(st, object, seen) \o <<")">>
    ELSE IF object.t = "cell" /\ object.n \in seen THEN <<"<diverges>">>
    ELSE LET inside == IF object.t = "cell" THEN seen \cup {object.n} ELSE seen
         IN (IF first THEN <<>> ELSE <<" ">>)
            \o ObjectToString(st, GetFirst(st, object), inside)
            \o ListToString(st, GetSecond(st, object), FALSE, inside)

\* Lambda::ToString
LambdaToString(st, lam, seen) ==
    LET RECURSIVE Prefix(_)
        \* for (name : arg_names_) { result += name; result.push_back(' '); }
        Prefix(i) ==
            IF i = 0 THEN <<"(", "lambda", " ", "(">>
            ELSE Prefix(i - 1) \o <<st.lambdas[lam].arg_names[i], " ">>
        RECURSIVE Suffix(_)
        \* for (expression : expressions_) { push_back(' '); result += ... }
        Suffix(i) ==
            IF i = 0 THEN <<>>
            ELSE Suffix(i - 1) \o <<" ">>
                 \o ObjectToString(st, st.lambdas[lam].expressions[i], seen)
        result == Prefix(Len(st.lambdas[lam].arg_names))
    IN \* result.back() = ')'
       [result EXCEPT ![Len(result)] = ")"]
       \o Suffix(Len(st.lambdas[lam].expressions)) \o <<")">>

\* ::ToString(object) and the ToString of each class
ObjectToString(st, obj, seen) ==
    CASE obj.t = "nil" -> <<"(", ")">>
      [] obj.t = "num" -> NumberToString(obj.n)
      [] obj.t = "bool" -> IF obj = GetBooleanConstant(TRUE) THEN <<"#t">>
                           ELSE <<"#f">>
      [] obj.t = "sym" -> <<obj.s>>
      [] obj.t = "lam" -> LambdaToString(st, obj.n, seen)
      [] IsCell(obj) -> <<"(">> \o ListToString(st, obj, TRUE, seen)

-----------------------------------------------------------------------------
(* Interpreter::Eval *)

\* an Eval that hands back what it cannot evaluate
SelfEvaluate(st, object) == Ok(st, object)

\* the last statement of Eval: throw RuntimeError("Cannot evaluate: ...")
CannotEvaluate(st, object) == Throw(st, "RuntimeError")

Eval(st, sc, object) ==
    LET u == UnfoldList(st, object)
        list == u.items
        isList == IsCell(object) /\ u.err = "none"
        isCommand == isList /\ list[1].t = "sym" /\ list[1].s \in CommandNames
        \* list.front() = Eval(list.front())
        front == Eval(st, sc, list[1])
        isLambda == isList /\ ~isCommand /\ front.err = "none"
                    /\ front.val.t = "lam"
        head == Note(PinVal(front.st, front.val),
                     CallEvent("Head", sc, 0, "none", <<front.val, list>>))
        a == EvalAll(head, sc, Tail(list))
    IN CASE object.t = "num" -> Ok(st, object)
         [] object.t = "bool" -> Ok(st, object)
         [] object.t = "sym" -> GetVariable(st, sc, object.s)
         [] IsCell(object) /\ u.err # "none" -> Throw(st, u.err)
         [] isCommand ->
                Command(list[1].s,
                        Note(st, [Event("Command", sc, 0, list[1].s, "none")
                                    EXCEPT !.info = <<list>>]),
                        sc, list)
         [] isList /\ ~isCommand /\ front.err # "none" -> front
         [] isLambda /\ a.err # "none" -> Leave(Throw(a.st, a.err), st.pins)
         [] isLambda /\ a.err = "none" ->
                Leave(Call(Note(a.st, CallEvent("Apply", sc, Len(head.log),
                                                "none", <<front.val.n, a.vals>>)),
                           front.val.n, a.vals), st.pins)
         [] isList /\ ~isCommand /\ front.err = "none" /\ front.val.t # "lam" ->
                Leave(CannotEvaluate(head, object), st.pins)
         [] object.t \in {"nil", "lam"} -> CannotEvaluate(st, object)

-----------------------------------------------------------------------------
(* Programs: what the reader hands to Interpreter::Eval *)

S(name) == Symbol(name)
N(i) == Number(i)
L(items) == Form(items)

\* (define (mk n) (lambda (x) n))
DefMk == L(<<S("define"), L(<<S("mk"), S("n")>>),
             L(<<S("lambda"), L(<<S("x")>>), S("n")>>)>>)
\* (define h (mk 5))
DefHFromMk == L(<<S("define"), S("h"), L(<<S("mk"), N(5)>>)>>)
\* (define mk 0)
RebindMk == L(<<S("define"), S("mk"), N(0)>>)
\* (define h ((lambda (n) (lambda (x) x)) 5))
DefHAnonymous ==
    L(<<S("define"), S("h"),
        L(<<L(<<S("lambda"), L(<<S("n")>>),
                L(<<S("lambda"), L(<<S("x")>>), S("x")>>)>>), N(5)>>)>>)
\* (h 3)
CallH == L(<<S("h"), N(3)>>)
\* (mk mk)
CallMkMk == L(<<S("mk"), S("mk")>>)

LifePool == {DefMk, DefHFromMk, RebindMk, DefHAnonymous, CallH, CallMkMk,
             S("h")}

\* (define x 1)
DefX == L(<<S("define"), S("x"), N(1)>>)
\* (define (p) (define x 2) x)
DefP == L(<<S("define"), L(<<S("p")>>),
            L(<<S("define"), S("x"), N(2)>>), S("x")>>)
\* (p)
CallP == L(<<S("p")>>)
\* ((lambda () (define (f) 3) 0))
DefFInCall ==
    L(<<L(<<S("lambda"), Nil,
            L(<<S("define"), L(<<S("f")>>), N(3)>>), N(0)>>)>>)
\* (define (f) x)
DefF == L(<<S("define"), L(<<S("f")>>), S("x")>>)
\* ((lambda (x) (f)) 5)
CallFShadowed == L(<<L(<<S("lambda"), L(<<S("x")>>), L(<<S("f")>>)>>), N(5)>>)
\* (set! x 7)
SetX == L(<<S("set!"), S("x"), N(7)>>)
\* ((lambda (x) (set! x 9) x) 3)
SetShadowed ==
    L(<<L(<<S("lambda"), L(<<S("x")>>),
            L(<<S("set!"), S("x"), N(9)>>), S("x")>>), N(3)>>)
\* ((lambda (y) (set! x y)) 4)
SetOuter ==
    L(<<L(<<S("lambda"), L(<<S("y")>>),
            L(<<S("set!"), S("x"), S("y")>>)>>), N(4)>>)
\* (define h ((lambda (n) (lambda () x)) 5))
DefHReadsX ==
    L(<<S("define"), S("h"),
        L(<<L(<<S("lambda"), L(<<S("n")>>),
                L(<<S("lambda"), Nil, S("x")>>)>>), N(5)>>)>>)
\* (define h ((lambda (n) (lambda () (set! x 2))) 5))
DefHSetsX ==
    L(<<S("define"), S("h"),
        L(<<L(<<S("lambda"), L(<<S("n")>>),
                L(<<S("lambda"), Nil,
                    L(<<S("set!"), S("x"), N(2)>>)>>)>>), N(5)>>)>>)
\* (h)
CallH0 == L(<<S("h")>>)

\* (define x (car 1)), whose value expression fails
DefXFails == L(<<S("define"), S("x"), L(<<S("car"), N(1)>>)>>)

EnvPool == {DefX, DefP, CallP, DefFInCall, DefF, CallFShadowed, SetX,
            SetShadowed, SetOuter, DefHReadsX, DefHSetsX, CallH0, S("x"),
            DefXFails,
            \* (define f nosuch), ((lambda (y) (define x (car y))) 4)
            L(<<S("define"), S("f"), S("nosuch")>>),
            L(<<L(<<S("lambda"), L(<<S("y")>>),
                    L(<<S("define"), S("x"), L(<<S("car"), S("y")>>)>>)>>),
                N(4)>>)}

\* (define (adder n) (lambda (x) (+ x n)))
DefAdder ==
    L(<<S("define"), L(<<S("adder"), S("n")>>),
        L(<<S("lambda"), L(<<S("x")>>), L(<<S("+"), S("x"), S("n")>>)>>)>>)
\* (define add5 (adder 5)), (define add6 (adder 5))
DefAdd5 == L(<<S("define"), S("add5"), L(<<S("adder"), N(5)>>)>>)
DefAdd6 == L(<<S("define"), S("add6"), L(<<S("adder"), N(5)>>)>>)
\* (add5 3)
CallAdd5 == L(<<S("add5"), N(3)>>)
\* (adder), (adder 1 2)
CallAdderNoArgs == L(<<S("adder")>>)
CallAdderTwoArgs == L(<<S("adder"), N(1), N(2)>>)
\* (define (counter n) (lambda () (set! n (+ n 1)) n))
DefCounter ==
    L(<<S("define"), L(<<S("counter"), S("n")>>),
        L(<<S("lambda"), Nil,
            L(<<S("set!"), S("n"), L(<<S("+"), S("n"), N(1)>>)>>), S("n")>>)>>)
\* ((lambda (a b) (a) (b)) (counter 0) (counter 0))
CallTwoCounters ==
    L(<<L(<<S("lambda"), L(<<S("a"), S("b")>>), L(<<S("a")>>), L(<<S("b")>>)>>),
        L(<<S("counter"), N(0)>>), L(<<S("counter"), N(0)>>)>>)
\* ((lambda (a) (a) (a)) (counter 0))
CallOneCounterTwice ==
    L(<<L(<<S("lambda"), L(<<S("a")>>), L(<<S("a")>>), L(<<S("a")>>)>>),
        L(<<S("counter"), N(0)>>)>>)

\* (adder (adder 1)), and a procedure with a local procedure called three
\* times: ((lambda (outer) (outer) (outer) (outer))
\*         (lambda () (define (inner) 1) 0))
CallPool ==
    {DefAdder, DefAdd5, DefAdd6, CallAdd5, CallAdderNoArgs, CallAdderTwoArgs,
     DefCounter, CallTwoCounters, CallOneCounterTwice, S("add5"),
     L(<<S("adder"), L(<<S("adder"), N(1)>>)>>),
     L(<<L(<<S("lambda"), L(<<S("outer")>>),
             L(<<S("outer")>>), L(<<S("outer")>>), L(<<S("outer")>>)>>),
         L(<<S("lambda"), Nil,
             L(<<S("define"), L(<<S("inner")>>), N(1)>>), N(0)>>)>>),
     \* ((lambda (f) (f #t)) add5), which fails in the body of add5
     L(<<L(<<S("lambda"), L(<<S("f")>>), L(<<S("f"), Boolean(TRUE)>>)>>),
         S("add5")>>)}

\* (define (fact n) (if (< n 1) 1 (* n (fact (- n 1)))))
FactBody ==
    L(<<S("if"), L(<<S("<"), S("n"), N(1)>>), N(1),
        L(<<S("*"), S("n"), L(<<S("fact"), L(<<S("-"), S("n"), N(1)>>)>>)>>)>>)
DefFact == L(<<S("define"), L(<<S("fact"), S("n")>>), FactBody>>)
\* (fact k)
CallFact(k) == L(<<S("fact"), N(k)>>)

\* ((lambda () (define (f n) (if (< n 1) 1 (* n (f (- n 1))))) (f 3)))
LocalFact ==
    L(<<L(<<S("lambda"), Nil,
            L(<<S("define"), L(<<S("f"), S("n")>>),
                L(<<S("if"), L(<<S("<"), S("n"), N(1)>>), N(1),
                    L(<<S("*"), S("n"),
                        L(<<S("f"), L(<<S("-"), S("n"), N(1)>>)>>)>>)>>)>>),
            L(<<S("f"), N(3)>>)>>)>>)

RecPool == {DefFact, S("fact"), LocalFact} \cup {CallFact(k) : k \in 0..MaxFact}

\* (define (id x) x), (id 5), (id id), (5 3), (quote ()), (())
DefId == L(<<S("define"), L(<<S("id"), S("x")>>), S("x")>>)
CallId == L(<<S("id"), N(5)>>)
CallIdId == L(<<S("id"), S("id")>>)
CallNumber == L(<<N(5), N(3)>>)
QuoteNil == L(<<S("quote"), Nil>>)
CallNil == L(<<Nil>>)
\* (define k (lambda () 1))
DefK == L(<<S("define"), S("k"), L(<<S("lambda"), Nil, N(1)>>)>>)

EvalPool == {Nil, N(5), Boolean(TRUE), Boolean(FALSE), S("id"), DefId, CallId,
             CallIdId, CallNumber, QuoteNil, CallNil, DefK, S("k"),
             \* (lambda (x y) (+ x y) 12), (lambda () (quote (1 #f)) (k))
             L(<<S("lambda"), L(<<S("x"), S("y")>>),
                 L(<<S("+"), S("x"), S("y")>>), N(12)>>),
             L(<<S("lambda"), Nil,
                 L(<<S("quote"), L(<<N(1), Boolean(FALSE)>>)>>),
                 L(<<S("k")>>)>>)}

\* applications: (define n 1), (define (sub a b) (- a b)), calls of sub, a
\* call whose arguments change n in turn, a Number in head position and a
\* call whose first argument is unbound
App(name) ==
    LET Bump == L(<<L(<<S("lambda"), Nil,
                         L(<<S("set!"), S("n"), L(<<S("+"), S("n"), N(1)>>)>>),
                         S("n")>>)>>)
        Twice == L(<<L(<<S("lambda"), Nil,
                          L(<<S("set!"), S("n"), L(<<S("*"), S("n"), N(2)>>)>>),
                          S("n")>>)>>)
    IN CASE name = "n" -> S("n")
         [] name = "DefN" -> L(<<S("define"), S("n"), N(1)>>)
         [] name = "DefSub" ->
               L(<<S("define"), L(<<S("sub"), S("a"), S("b")>>),
                   L(<<S("-"), S("a"), S("b")>>)>>)
         [] name = "CallSub" -> L(<<S("sub"), N(5), N(3)>>)
         [] name = "CallSubNested" ->
               L(<<S("sub"), L(<<S("sub"), N(9), N(1)>>), N(3)>>)
         [] name = "CallOrder" ->
               L(<<L(<<S("lambda"), L(<<S("a"), S("b")>>),
                       L(<<S("-"), S("a"), S("b")>>)>>), Bump, Twice>>)
         [] name = "CallNumber" -> L(<<N(5), Bump>>)
         [] name = "CallUnbound" -> L(<<S("sub"), S("y"), Bump>>)
AppPool ==
    {App(name) : name \in
        {"n", "DefN", "DefSub", "CallSub", "CallSubNested", "CallOrder",
         "CallNumber", "CallUnbound"}}

\* primitives and special forms on operands of every type and with every
\* number of operands
Q(x) == L(<<S("quote"), x>>)
Ordering == {"<", ">", "<=", ">="}
Operands ==
    {<<N(1), N(2)>>, <<N(2), N(1)>>, <<N(1), N(1), N(2)>>,
     <<N(1), Boolean(TRUE)>>, <<Boolean(TRUE), N(1)>>, <<N(1), Q(S("a"))>>,
     <<Q(Nil), N(1)>>, <<N(2), N(1), Boolean(FALSE)>>, <<Boolean(TRUE)>>,
     <<Q(L(<<N(1), N(2)>>))>>, <<N(5)>>, <<N(7), N(0 - 2)>>, <<N(1), N(0)>>}
OrderingForms == {L(<<S(op)>> \o xs) : op \in Ordering, xs \in Operands}
ArithForms ==
    {L(<<S(op)>> \o xs) : op \in {"+", "-", "*", "/"}, xs \in Operands}
AddBoolean == L(<<S("+"), N(1), Boolean(TRUE)>>)
\* forms with a number of operands their head does not take
SpecialForms == {"if", "define", "set!", "set-car!", "set-cdr!", "lambda"}
WrongCount ==
    {L(<<S("quote")>>), L(<<S("quote"), N(1), N(2)>>),
     L(<<S("if")>>), L(<<S("if"), N(1)>>), L(<<S("if"), N(1), N(2), N(3), N(4)>>),
     L(<<S("define")>>), L(<<S("define"), S("x")>>),
     L(<<S("define"), S("x"), N(1), N(2)>>),
     L(<<S("define"), L(<<S("f")>>)>>),
     L(<<S("set!"), S("x")>>), L(<<S("set!"), S("x"), N(1), N(2)>>),
     L(<<S("set-car!"), S("x")>>), L(<<S("set-car!"), S("x"), N(1), N(2)>>),
     L(<<S("set-cdr!"), S("x")>>), L(<<S("set-cdr!"), S("x"), N(1), N(2)>>),
     L(<<S("lambda")>>), L(<<S("lambda"), L(<<S("x")>>)>>),
     L(<<S("not")>>), L(<<S("not"), N(1), N(2)>>),
     L(<<S("car")>>), L(<<S("cdr"), Q(L(<<N(1)>>)), N(2)>>),
     L(<<S("cons"), N(1)>>), L(<<S("cons"), N(1), N(2), N(3)>>),
     L(<<S("abs")>>), L(<<S("abs"), N(1), N(2)>>),
     L(<<S("-")>>), L(<<S("/")>>), L(<<S("min")>>), L(<<S("max")>>),
     L(<<S("null?")>>), L(<<S("list?")>>),
     L(<<S("list-ref"), Q(L(<<N(1)>>))>>),
     L(<<S("list-ref"), Q(L(<<N(1)>>)), N(0), N(2)>>),
     L(<<S("list-tail"), Q(L(<<N(1)>>))>>),
     L(<<S("number?")>>), L(<<S("boolean?")>>), L(<<S("symbol?"), N(1), N(2)>>),
     L(<<S("pair?"), N(1), N(2)>>)}
\* an unbound operand of a primitive that takes one operand
NotUnbound == L(<<S("not"), S("y"), N(2)>>)
\* the primitives that take any number of operands
AnyCount == {L(<<S("+")>>), L(<<S("*")>>), L(<<S("and")>>), L(<<S("or")>>),
             L(<<S("list")>>), L(<<S("=")>>), L(<<S("<")>>)}

PrimPool == OrderingForms \cup ArithForms \cup WrongCount \cup AnyCount
            \cup {AddBoolean, NotUnbound, N(1),
                  \* ((lambda (x) (- x)) #t)
                  L(<<L(<<S("lambda"), L(<<S("x")>>), L(<<S("-"), S("x")>>)>>),
                      Boolean(TRUE)>>)}

\* bindings named like commands, in the root frame and in a call frame, and
\* parameter lists that name a parameter twice
Bound(name) ==
    CASE name = "DefList" -> L(<<S("define"), S("list"), N(5)>>)
      [] name = "DefCar" -> L(<<S("define"), L(<<S("car"), S("x")>>), N(0)>>)
      [] name = "DefIf" -> L(<<S("define"), S("if"), N(3)>>)
      [] name = "CallList" -> L(<<S("list"), N(1), N(2)>>)
      [] name = "CallCar" -> L(<<S("car"), Q(L(<<N(1), N(2)>>))>>)
      [] name = "CallIf" -> L(<<S("if"), Boolean(FALSE), N(1), N(2)>>)
      [] name = "CallMaxBound" ->
            L(<<L(<<S("lambda"), L(<<S("max")>>),
                    L(<<S("max"), N(1), N(2)>>)>>), N(7)>>)
      [] name = "ReadListBound" ->
            L(<<L(<<S("lambda"), L(<<S("list")>>), S("list")>>), N(3)>>)
      [] name = "TwiceX" ->
            L(<<L(<<S("lambda"), L(<<S("x"), S("x")>>), S("x")>>), N(1), N(2)>>)
      [] name = "ThriceX" ->
            L(<<L(<<S("lambda"), L(<<S("x"), S("y"), S("x")>>), S("x")>>),
                N(1), N(2), N(3)>>)
      [] name = "DefXInCall" ->
            L(<<L(<<S("lambda"), L(<<S("x")>>),
                    L(<<S("define"), S("x"), N(2)>>), S("x")>>), N(1)>>)
HeadPool ==
    {Bound(name) : name \in
        {"DefList", "DefCar", "DefIf", "CallList", "CallCar", "CallIf",
         "CallMaxBound", "ReadListBound", "TwiceX", "ThriceX",
         "DefXInCall"}}
            \cup {S("list"), S("car"), S("if"), S("max")}

\* pairs that set-car! and set-cdr! make part of themselves, next to values
\* of the other types
Pairs(name) ==
    CASE name = "p" -> S("p")
      [] name = "DefP" -> L(<<S("define"), S("p"), L(<<S("cons"), N(1), N(2)>>)>>)
      [] name = "DefQ" ->
            L(<<S("define"), S("q"),
                L(<<S("list"), N(1), Boolean(TRUE), Q(S("a"))>>)>>)
      [] name = "DefR" -> L(<<S("define"), S("r"), Q(L(<<N(1), N(2)>>))>>)
      [] name = "DefG" -> L(<<S("define"), L(<<S("g")>>), Q(Nil)>>)
      [] name = "SetCdr" -> L(<<S("set-cdr!"), S("p"), S("p")>>)
      [] name = "SetCar" -> L(<<S("set-car!"), S("p"), S("p")>>)
      [] name = "SetCdrQ" -> L(<<S("set-cdr!"), S("p"), S("q")>>)
      [] name = "CallG" -> L(<<S("g")>>)
PairPool ==
    {Pairs(name) : name \in
        {"p", "DefP", "DefQ", "DefR", "DefG", "SetCdr", "SetCar",
         "SetCdrQ", "CallG"}}

Programs(p) ==
    CASE p = "life" -> LifePool
      [] p = "pair" -> PairPool
      [] p = "head" -> HeadPool
      [] p = "prim" -> PrimPool
      [] p = "app" -> AppPool
      [] p = "env" -> EnvPool
      [] p = "call" -> CallPool
      [] p = "rec" -> RecPool
      [] p = "eval" -> EvalPool

\* the values the host holds from the bindings of the root frame and may
\* hand back to Eval: the closures
HostValues ==
    IF pool = "eval"
    THEN {v \in Range(scopes[RootScope].variables) : v.t = "lam"}
    ELSE {}

Inputs == Programs(pool) \cup HostValues

-----------------------------------------------------------------------------
(* The driver: one Interpreter, its root frame, and Eval called on it *)

Cur == [scopes |-> scopes, lambdas |-> lambdas, cells |-> cells,
        fresh |-> fresh, freed |-> freed, pins |-> <<>>, log |-> <<>>]

\* Interpreter::Interpreter(): scope_(new Scope), scope_->AddRef()
InitHeap ==
    /\ scopes = (RootScope :> [parent |-> NoScope, variables |-> NoVariables,
                               refs |-> 1])
    /\ lambdas = [l \in {} |-> 0]
    /\ cells = [c \in {} |-> 0]
    /\ fresh = RootScope + 1
    /\ freed = [s \in {} |-> NewScope(NoScope)]
    /\ last = [e |-> Nil, val |-> Nil, err |-> "none", out |-> <<>>]
    /\ log = <<>>
    /\ runs = 0

InitLife == InitHeap /\ pool = "life"
InitEnv == InitHeap /\ pool = "env"
InitCall == InitHeap /\ pool = "call"
InitRec == InitHeap /\ pool = "rec"
InitEval == InitHeap /\ pool = "eval"
InitApp == InitHeap /\ pool = "app"
InitPrim == InitHeap /\ pool = "prim"
InitHead == InitHeap /\ pool = "head"
InitPair == InitHeap /\ pool = "pair"

\* the outcome of Eval becomes the state of the interpreter; out is the
\* string Run returns, ToString(Eval(object)), or "<diverges>" when ToString
\* does not return
Store(e, r, st) ==
    /\ last' = [e |-> e, val |-> r.val, err |-> r.err,
                out |-> IF r.err # "none" THEN <<>>
                        ELSE LET result == ObjectToString(r.st, r.val, {})
                             IN IF "<diverges>" \in Range(result)
                                THEN <<"<diverges>">> ELSE result]
    /\ scopes' = st.scopes
    /\ lambdas' = st.lambdas
    /\ cells' = st.cells
    /\ fresh' = st.fresh
    /\ freed' = st.freed
    /\ log' = st.log

\* the value is rendered and dropped
Render(e, r) == Store(e, r, Collect([r.st EXCEPT !.pins = <<>>], {}))

\* Interpreter::Run after the reader: Eval(object) on the root frame
Run(e) ==
    /\ runs < MaxRuns
    /\ Render(e, Eval(Cur, RootScope, e))
    /\ runs' = runs + 1
    /\ UNCHANGED pool

\* the three branches of Interpreter::Eval
IsCommandForm(e) ==
    e.t = "form" /\ e.k[1].t = "sym" /\ e.k[1].s \in CommandNames

EvalAtom == \E e \in Inputs : e.t # "form" /\ Run(e)
EvalCommand == \E e \in Inputs : IsCommandForm(e) /\ Run(e)
EvalApplication ==
    \E e \in Inputs : e.t = "form" /\ ~IsCommandForm(e) /\ Run(e)

Next == EvalAtom \/ EvalCommand \/ EvalApplication

SpecLife == InitLife /\ [][Next]_vars
SpecEnv == InitEnv /\ [][Next]_vars
SpecCall == InitCall /\ [][Next]_vars
SpecRec == InitRec /\ [][Next]_vars
SpecEval == InitEval /\ [][Next]_vars
SpecPrim == InitPrim /\ [][Next]_vars
SpecHead == InitHead /\ [][Next]_vars
\* the host compares a value it holds from the root frame with itself.
\* Equal has no case for two references to one object: on a pair that is
\* part of itself the recursion of Cell::IsEqualTo does not end
Compared(v, outcome) ==
    /\ last' = [e |-> v, val |-> Boolean(outcome = "true"),
                err |-> IF outcome = "diverges" THEN "diverges" ELSE "none",
                out |-> <<>>]
    /\ log' = <<[op |-> "Equal", scope |-> RootScope, slot |-> 0, name |-> "",
                 err |-> IF outcome = "diverges" THEN "diverges" ELSE "none",
                 info |-> <<v, outcome>>]>>
EqualSelf ==
    \E v \in Range(scopes[RootScope].variables) \cup {Nil} :
        /\ runs < MaxRuns
        /\ Compared(v, Equal(Cur, v, v))
        /\ runs' = runs + 1
        /\ UNCHANGED <<scopes, lambdas, cells, fresh, freed, pool>>

NextPair == Next \/ EqualSelf
SpecPair == InitPair /\ [][NextPair]_vars
SpecApp == InitApp /\ [][Next]_vars

-----------------------------------------------------------------------------
(* Properties.  Between two operations of the driver no evaluation is       *)
(* active: scopes, lambdas and cells are the heap the interpreter keeps,    *)
(* last is the outcome of the operation just run and log its history.       *)

\* the objects that object o owns a reference to: a frame its bound values,
\* a pair its fields, a closure the frames of local_scopes_
OwnedBy(o) ==
    IF o \in DOMAIN scopes
    THEN UNION {Owned(v) : v \in Range(scopes[o].variables)}
    ELSE IF o \in DOMAIN cells
    THEN Owned(cells[o].first) \cup Owned(cells[o].second)
    ELSE IF o \in DOMAIN lambdas THEN Range(lambdas[o].local_scopes)
    ELSE {}

RECURSIVE ReachFrom(_)
ReachFrom(R) ==
    LET R2 == R \cup UNION {OwnedBy(o) : o \in R}
    IN IF R2 = R THEN R ELSE ReachFrom(R2)

\* what the root environment reaches through owning references
Reachable == ReachFrom({RootScope})

\* the events of the history with one of the operations ops
Events(ops) == {i \in DOMAIN log : log[i].op \in ops}

\* C1: every closure that is still reachable has a defining frame that has
\* not been freed, also when the closure that allocated that frame is gone
C1_DefiningFrameLives ==
    \A l \in Reachable \cap DOMAIN lambdas : lambdas[l].scope \in DOMAIN scopes

\* C2: no cycle of owning references keeps memory alive: every frame and
\* every closure that still exists is reachable from the root environment
C2_NoOwningCycle ==
    (DOMAIN scopes \cup DOMAIN lambdas \cup DOMAIN cells) \subseteq Reachable

\* C3: a call of a closure whose defining frame has been reclaimed fails: the
\* body is never evaluated in the new frame and the call never returns
\* normally
C3_ExpiredCallFails ==
    \A i \in Events({"Call"}) :
        log[i].err = "expired" =>
            \A j \in Events({"Body", "Return"}) :
                log[j].scope = log[i].scope =>
                    log[j].op = "Return" /\ log[j].err # "none"

\* the frames outside frame s on its chain, in the frames as they are in
\* the map frames
RECURSIVE OuterFrames(_, _)
OuterFrames(frames, s) ==
    IF s \notin DOMAIN frames \/ frames[s].parent \notin DOMAIN frames THEN {}
    ELSE {frames[s].parent} \cup OuterFrames(frames, frames[s].parent)

\* C4: define creates or overwrites a binding in the current frame only: the
\* bindings of every outer frame are the same before and after
C4_DefineIsLocal ==
    \A i \in Events({"SetVariable"}) :
        \A s \in OuterFrames(log[i].info[1], log[i].scope) \cap DOMAIN log[i].info[2] :
            log[i].info[2][s].variables = log[i].info[1][s].variables

\* a frame as the history knows it: as it is in the map frames, or as it
\* was when it was freed
FramesEver(frames) == frames @@ freed

\* the nearest frame that binds name, walking outward from frame s through
\* the frames of the chain, those freed since included
RECURSIVE NearestBinding(_, _, _)
NearestBinding(frames, s, name) ==
    IF s \notin DOMAIN FramesEver(frames) THEN NoScope
    ELSE IF name \in DOMAIN FramesEver(frames)[s].variables THEN s
    ELSE NearestBinding(frames, FramesEver(frames)[s].parent, name)

\* the bindings (frame, name) of the frames that are in both maps
Bindings(before, after) ==
    {<<s, x>> : s \in DOMAIN before \cap DOMAIN after,
                x \in UNION {DOMAIN before[f].variables : f \in DOMAIN before}
                      \cup UNION {DOMAIN after[f].variables : f \in DOMAIN after}}

\* binding b has the same state (unbound, or bound to the same value) in
\* both maps
SameBinding(before, after, b) ==
    /\ (b[2] \in DOMAIN before[b[1]].variables)
           = (b[2] \in DOMAIN after[b[1]].variables)
    /\ b[2] \in DOMAIN before[b[1]].variables =>
           after[b[1]].variables[b[2]] = before[b[1]].variables[b[2]]

\* C5: set! never creates a binding: it replaces the value of the nearest
\* binding of the name on the chain and leaves every other binding as it
\* was; when no frame of the chain binds the name it fails with NameError and
\* every frame keeps its bindings
C5_SetReplacesNearest ==
    \A i \in Events({"set!"}) :
        LET before == log[i].info[1]
            after == log[i].info[2]
            nearest == NearestBinding(before, log[i].scope, log[i].name)
        IN /\ log[i].slot = nearest
           /\ (log[i].err = "NameError") = (nearest = NoScope)
           /\ log[i].err \in {"none", "NameError"}
           /\ nearest # NoScope =>
                  /\ nearest \in DOMAIN after
                  /\ after[nearest].variables[log[i].name] = log[i].info[3]
           /\ \A b \in Bindings(before, after) \ {<<nearest, log[i].name>>} :
                  SameBinding(before, after, b)

\* C6: a variable is resolved in the new frame of the call first, then in the
\* defining frame of the closure and its parents outward; the first frame
\* that binds the name wins
C6_LexicalScoping ==
    \A i \in Events({"GetVariable"}) :
        log[i].slot = NearestBinding(log[i].info[1], log[i].scope, log[i].name)

\* C7: a call with a wrong number of arguments fails as its first step: no
\* frame is allocated or registered, the bookkeeping set of the closure is as
\* it was before the call, and no body expression is evaluated
C7_ArityFailsFirst ==
    \A i \in Events({"ArityError"}) :
        /\ \A j \in Events({"Call"}) :
               log[j].scope = log[i].scope => log[i].info = log[j].info
        /\ \A j \in Events({"Body"}) : log[j].scope # log[i].scope

\* the value a name is bound to in the root frame
RootValue(name) == scopes[RootScope].variables[name]
IsRootClosure(name) ==
    name \in DOMAIN scopes[RootScope].variables /\ RootValue(name).t = "lam"

\* C8: the calls of one closure run in independent frames: every call
\* allocates a frame of its own, the closures two calls return capture
\* different frames and are unequal under Equal, a set! through one of them
\* does not show through the other, and (add5 3) yields 8 while the frame of
\* (adder 5) is registered with adder
C8_IndependentFrames ==
    /\ \A i, j \in Events({"Call"}) : i # j => log[i].scope # log[j].scope
    /\ (IsRootClosure("add5") /\ IsRootClosure("add6")) =>
           /\ lambdas[RootValue("add5").n].scope
                  # lambdas[RootValue("add6").n].scope
           /\ Equal(Cur, RootValue("add5"), RootValue("add6")) = "false"
    /\ (last.e = CallTwoCounters /\ IsRootClosure("counter")) =>
           last.err = "none" /\ last.val = Number(1)
    /\ (last.e = CallOneCounterTwice /\ IsRootClosure("counter")) =>
           last.err = "none" /\ last.val = Number(2)
    /\ (/\ last.e = CallAdd5
        /\ IsRootClosure("add5")
        /\ ~Expired(Cur, lambdas[RootValue("add5").n].scope)) =>
           last.err = "none" /\ last.val = Number(8)

\* one closure has been called twice in one evaluation, each of the closures
\* it returned has counted once
C8_Witness ==
    /\ last.e = CallTwoCounters
    /\ last.val = Number(1)
    /\ \E i, j \in Events({"Call"}) :
           i # j /\ log[i].slot = log[j].slot /\ log[i].scope # log[j].scope

RECURSIVE Factorial(_)
Factorial(n) == IF n = 0 THEN 1 ELSE n * Factorial(n - 1)

\* the lookups of a name in the history
Lookups(name) == {i \in Events({"GetVariable"}) : log[i].name = name}

\* C9: define binds the name to the empty list, builds the closure and then
\* overwrites the binding with it; in the body the name resolves to that
\* closure at every depth, and (fact n) yields n! for n in 0..MaxFact
C9_SelfRecursion ==
    /\ \A i \in Events({"SetVariable"}) :
           log[i].info[3].t = "lam" =>
               /\ i > 2
               /\ log[i - 1].op = "Lambda"
               /\ log[i - 1].slot = log[i].info[3].n
               /\ log[i - 2].op = "SetVariable"
               /\ log[i - 2].name = log[i].name
               /\ log[i - 2].scope = log[i].scope
               /\ log[i - 2].info[3] = Nil
               /\ log[i].slot = log[i - 2].slot
               /\ log[i].info[2][log[i].slot].variables[log[i].name]
                      = log[i].info[3]
    /\ last.e = DefFact =>
           /\ last.err = "none"
           /\ IsRootClosure("fact")
           /\ lambdas[RootValue("fact").n].expressions = <<FactBody>>
    /\ \A k \in 0..MaxFact :
           (last.e = CallFact(k) /\ IsRootClosure("fact")) =>
               /\ last.err = "none"
               /\ last.val = Number(Factorial(k))
               /\ Cardinality(Lookups("fact")) = k + 1
               /\ \A i \in Lookups("fact") :
                      /\ log[i].slot = RootScope
                      /\ log[i].info[1][RootScope].variables["fact"]
                             = RootValue("fact")
    /\ last.e = LocalFact => last.err = "none" /\ last.val = Number(6)

\* (fact 5) has run to its end
C9_Witness ==
    /\ last.e = CallFact(5)
    /\ last.val = Number(120)
    /\ Cardinality(Lookups("fact")) = 6

\* C10: Eval is self-evaluating on every value that is not a Number, Boolean,
\* Symbol or Pair: Eval of the empty list returns the empty list and Eval of a
\* closure returns that closure, without error
C10_SelfEvaluating ==
    (runs > 0 /\ last.e.t \in {"nil", "lam"}) =>
        last.err = "none" /\ last.val = last.e

\* C10, amended: Eval fails with RuntimeError on every value that is not a
\* Number, Boolean, Symbol or Pair, the empty list and a closure included,
\* before any step of evaluation; a form whose operator is the empty list
\* fails with the same error
C10_CannotEvaluate ==
    /\ (runs > 0 /\ last.e.t \in {"nil", "lam"}) =>
           last.err = "RuntimeError" /\ last.val = Nil /\ log = <<>>
    /\ last.e = CallNil => last.err = "RuntimeError" /\ log = <<>>

\* Eval has been handed a closure and has failed
C10_Witness ==
    runs > 0 /\ last.e.t = "lam" /\ last.e.n \in DOMAIN lambdas
    /\ last.err = "RuntimeError"

\* the steps of the application whose head gave its value at step h
ArgsOf(h) == {i \in Events({"Arg"}) : log[i].slot = h}
ArgAt(h, j) == {i \in ArgsOf(h) : log[i].info[1] = j}
AppliesOf(h) == {i \in Events({"Apply"}) : log[i].slot = h}
ValuesOf(h) ==
    [j \in 1..Cardinality(ArgsOf(h)) |->
        log[CHOOSE i \in ArgAt(h, j) : TRUE].info[3]]

\* C11: an application evaluates its head first.  When the value of the head
\* is not a closure it fails with RuntimeError and evaluates no argument.
\* Otherwise it evaluates the arguments once each, from left to right, in
\* the environment of the caller, stops at the first that fails, and then
\* calls the closure with the values in the same order
C11_ApplicationProtocol ==
    \A h \in Events({"Head"}) :
        LET v == log[h].info[1]
            list == log[h].info[2]
            m == Cardinality(ArgsOf(h))
        IN IF v.t # "lam"
           THEN /\ ArgsOf(h) = {} /\ AppliesOf(h) = {}
                /\ last.err = "RuntimeError"
                /\ \A i \in DOMAIN log : i > h => log[i].op \in {"Arg", "Return"}
           ELSE /\ m <= Len(list) - 1
                /\ \A i \in ArgsOf(h) : i > h /\ log[i].scope = log[h].scope
                /\ \A j \in 1..m :
                       \E i \in ArgAt(h, j) :
                           ArgAt(h, j) = {i} /\ log[i].info[2] = list[j + 1]
                /\ \A i, k \in ArgsOf(h) :
                       log[i].info[1] < log[k].info[1] => i < k
                /\ \A i \in ArgsOf(h) :
                       log[i].err # "none" => log[i].info[1] = m
                /\ IF m = Len(list) - 1
                      /\ \A i \in ArgsOf(h) : log[i].err = "none"
                   THEN \E p \in AppliesOf(h) :
                           /\ AppliesOf(h) = {p}
                           /\ \A i \in ArgsOf(h) : i < p
                           /\ log[p].info = <<v.n, ValuesOf(h)>>
                           /\ p < Len(log)
                           /\ log[p + 1].op = "Call"
                           /\ log[p + 1].slot = v.n
                   ELSE AppliesOf(h) = {} /\ last.err # "none"

\* no argument of the two failing applications has run: n is not assigned
C11_NoArgumentRuns ==
    /\ last.e = App("CallNumber") =>
           last.err = "RuntimeError" /\ Events({"set!", "Call"}) = {}
    /\ last.e = App("CallUnbound") /\ IsRootClosure("sub") =>
           last.err = "NameError" /\ Events({"set!", "Call"}) = {}

C11_Application == C11_ApplicationProtocol /\ C11_NoArgumentRuns

\* the two arguments of CallOrder have run in turn: n = (1 + 1) * 2, and the
\* call has returned 2 - 4
C11_Witness ==
    /\ last.e = App("CallOrder")
    /\ last.val = Number(0 - 2)
    /\ RootValue("n") = Number(4)
    /\ \E h \in Events({"Head"}) :
           log[h].scope = RootScope /\ Cardinality(ArgsOf(h)) = 2
           /\ AppliesOf(h) # {}

\* the operands of a form of the pool are literals and quotations
Literal(x) == IF x.t = "form" THEN x.k[2] ELSE x
NonNumbers(e) == {i \in 2..Len(e.k) : Literal(e.k[i]).t # "num"}
OperandValue(e, i) == Literal(e.k[i]).n
Ordered(op, a, b) ==
    CASE op = "<" -> a < b
      [] op = ">" -> a > b
      [] op = "<=" -> a <= b
      [] op = ">=" -> a >= b

\* C12 as stated: an ordering primitive given an operand that is not a Number
\* fails with the comparison error (NameError), not with RuntimeError
C12_ComparisonError ==
    runs > 0 /\ last.e \in OrderingForms /\ NonNumbers(last.e) # {} =>
        last.err = "NameError"

\* C12: an ordering primitive given an operand that is not a Number, in any
\* position and also as its only operand, fails with RuntimeError, the error
\* of (+ 1 #t); the comparison error of Less is never raised.  On Numbers it
\* returns whether every operand is in the relation with the next
C12_OrderingFailsEvaluation ==
    /\ runs > 0 /\ last.e \in OrderingForms =>
           IF NonNumbers(last.e) # {}
           THEN last.err = "RuntimeError"
           ELSE /\ last.err = "none"
                /\ last.val = Boolean(
                      \A i \in 2..(Len(last.e.k) - 1) :
                          Ordered(last.e.k[1].s, OperandValue(last.e, i),
                                  OperandValue(last.e, i + 1)))
    /\ runs > 0 /\ last.e = AddBoolean => last.err = "RuntimeError"

C12_Witness ==
    /\ last.e = L(<<S("<"), N(1), Boolean(TRUE)>>)
    /\ last.err = "RuntimeError"
    /\ \E i \in Events({"Command"}) : log[i].name = "<"

C14_ArithmeticRejectsNonNumbers ==
    runs > 0 /\ last.e \in ArithForms =>
        /\ NonNumbers(last.e) # {} => last.err = "RuntimeError"
        /\ last.err = "none" => last.val.t = "num"

\* C19: a form whose head is the name of a command is run by that command
\* on its unevaluated operands, whatever the environment binds: the head is
\* never looked up, so a binding of the same name by define or as a parameter
\* changes nothing.  The names of the commands are not variables: such a
\* name as a plain symbol is NameError unless the user has bound it, and then
\* it is the value the user bound
C19_CommandHeads ==
    /\ \A h \in Events({"Head"}) :
           ~(log[h].info[2][1].t = "sym"
             /\ log[h].info[2][1].s \in CommandNames)
    /\ \A i \in Events({"Command"}) :
           /\ log[i].name \in CommandNames
           /\ log[i].info[1][1] = S(log[i].name)
           /\ i < Len(log) => ~(log[i + 1].op = "GetVariable"
                                /\ log[i + 1].name = log[i].name)
    /\ runs > 0 /\ last.e = Bound("CallList") =>
           last.err = "none" /\ last.val.t = "cell"
    /\ runs > 0 /\ last.e = Bound("CallCar") => last.val = Number(1)
    /\ runs > 0 /\ last.e = Bound("CallIf") => last.val = Number(2)
    /\ runs > 0 /\ last.e = Bound("CallMaxBound") => last.val = Number(2)
    /\ runs > 0 /\ last.e = Bound("ReadListBound") => last.val = Number(3)
    /\ runs > 0 /\ last.e.t = "sym" /\ last.e.s \in CommandNames =>
           IF last.e.s \in DOMAIN scopes[RootScope].variables
           THEN last.err = "none" /\ last.val = RootValue(last.e.s)
           ELSE last.err = "NameError"

\* car is bound to a closure of the user and (car (quote (1 2))) is 1
C19_Witness ==
    /\ last.e = Bound("CallCar")
    /\ IsRootClosure("car")
    /\ last.val = Number(1)
    /\ Events({"Call"}) = {}

\* C20: binding a name that the frame already binds replaces the value: of
\* two parameters of the same name the last argument is the value, so
\* ((lambda (x x) x) 1 2) yields 2
C20_LastBindingWins ==
    /\ runs > 0 /\ last.e = Bound("TwiceX") =>
           last.err = "none" /\ last.val = Number(2)
    /\ runs > 0 /\ last.e = Bound("ThriceX") =>
           last.err = "none" /\ last.val = Number(3)

\* the pairs reachable from v through first and second
RECURSIVE PairsFrom(_, _)
PairsFrom(seen, v) ==
    IF v.t # "cell" \/ v.n \in seen THEN seen
    ELSE PairsFrom(PairsFrom(seen \cup {v.n}, cells[v.n].first),
                   cells[v.n].second)
\* v holds a pair that is part of itself
Cyclic(v) ==
    \E c \in PairsFrom({}, v) :
        c \in PairsFrom({}, cells[c].first) \cup PairsFrom({}, cells[c].second)

\* C15: Equal(x, x) terminates and returns true for every value that can be
\* constructed, a pair that set-cdr! or set-car! has made part of itself
\* included
C15_EqualSelfTerminates ==
    \A i \in Events({"Equal"}) :
        log[i].err = "none" /\ log[i].info[2] = "true"

\* Equal(x, x) is true on every value that holds no pair that is part of
\* itself, and is without outcome on every value that does
C15_EqualSelfUnlessCyclic ==
    \A i \in Events({"Equal"}) :
        log[i].info[2] = IF Cyclic(log[i].info[1]) THEN "diverges" ELSE "true"

\* the frames of local_scopes_ whose counter is above zero, in their order
RECURSIVE KeptFrames(_, _, _)
KeptFrames(before, refs, i) ==
    IF i > Len(before) THEN <<>>
    ELSE (IF refs[i] > 0 THEN <<before[i]>> ELSE <<>>)
         \o KeptFrames(before, refs, i + 1)

\* C17: every call begins with the pruning step: of the frames registered
\* before, exactly those whose counter is zero or less are removed, those
\* whose counter is above zero stay in their order, and the new frame is
\* added: the set after registration is the frames of before with a counter
\* above zero, then the new frame
C17_PruningStep ==
    /\ \A c \in Events({"Call"}) :
           c + 2 <= Len(log) /\ log[c + 1].op = "Prune"
           /\ log[c + 2].op = "Registered"
    /\ \A p \in Events({"Prune"}) :
           /\ log[p - 1].op = "Call" /\ log[p - 1].scope = log[p].scope
           /\ log[p - 1].info = log[p].info[1]
           /\ log[p + 1].scope = log[p].scope /\ log[p + 1].slot = log[p].slot
           /\ log[p + 1].info =
                  KeptFrames(log[p].info[1], log[p].info[2], 1)
                  \o <<log[p].scope>>

\* a call has found a frame to remove and a frame to keep
C17_Witness ==
    \E p \in Events({"Prune"}) :
        /\ \E i \in DOMAIN log[p].info[2] : log[p].info[2][i] <= 0
        /\ \E i \in DOMAIN log[p].info[2] : log[p].info[2][i] > 0
        /\ Len(log[p + 1].info) < Len(log[p].info[1]) + 1

\* the call that allocated frame f has begun and has not ended at step p
ActiveAt(f, p) ==
    \E c \in Events({"Call"}) :
        /\ c < p /\ log[c].scope = f
        /\ \A t \in Events({"Return", "ArityError"}) :
               log[t].scope = f => t > p

\* what the objects R own in heap h, frame f left out
OwnedIn(h, o) ==
    IF o \in DOMAIN h.scopes
    THEN UNION {Owned(v) : v \in Range(h.scopes[o].variables)}
    ELSE IF o \in DOMAIN h.cells
    THEN Owned(h.cells[o].first) \cup Owned(h.cells[o].second)
    ELSE IF o \in DOMAIN h.lambdas THEN Range(h.lambdas[o].local_scopes)
    ELSE {}
RECURSIVE ReachOutside(_, _, _)
ReachOutside(h, R, f) ==
    LET R2 == (R \cup UNION {OwnedIn(h, o) : o \in R}) \ {f}
    IN IF R2 = R THEN R ELSE ReachOutside(h, R2, f)

\* at step p a closure that captures frame f is reachable, not through f,
\* from the root frame, a frame of a running call or a local of the
\* evaluation
CapturedOutside(f, p) ==
    LET h == log[p].info[3]
        roots == ({RootScope} \cup Range(h.pins)
                  \cup {g \in DOMAIN h.scopes : ActiveAt(g, p)}) \ {f}
    IN \E l \in ReachOutside(h, roots, f) \cap DOMAIN h.lambdas :
           h.lambdas[l].scope = f

\* C16: a frame stays in the bookkeeping set of the closure that allocated
\* it only while its call runs or a closure created in it is reachable from
\* outside the frame; any other frame is dropped by the next call.  A frame
\* whose closures are only bound in the frame itself is dropped by the next
\* call, so the set does not grow with the number of calls
C16_FramesDropped ==
    \A p \in Events({"Prune"}) :
        \A i \in 1..(Len(log[p + 1].info) - 1) :
            \/ ActiveAt(log[p + 1].info[i], p)
            \/ CapturedOutside(log[p + 1].info[i], p)

\* the frames kept for another reason than a counter left by a closure that
\* is bound in the frame itself: none
C16_KeptByCounter ==
    \A p \in Events({"Prune"}) :
        \A i \in 1..(Len(log[p + 1].info) - 1) :
            LET f == log[p + 1].info[i]
                h == log[p].info[3]
            IN \/ ActiveAt(f, p)
               \/ \E l \in DOMAIN h.lambdas : h.lambdas[l].scope = f

\* the frames that a pruning step of the operation just run has removed
PrunedFrames ==
    UNION {Range(log'[p].info[1]) \ Range(log'[p + 1].info) :
             p \in {i \in DOMAIN log' : log'[i].op = "Prune"}}

\* C18: the pruning step at the start of a call is the only point where
\* frames are reclaimed: a frame is freed only when a later call of the
\* closure that allocated it has pruned it.  No return, no destruction or
\* rebinding of the allocating closure and no destruction of a nested closure
\* frees a frame
C18_OnlyPruningFrees ==
    [][(DOMAIN freed' \ DOMAIN freed) \subseteq PrunedFrames]_vars

\* the string "(lambda (" + the names of P separated by single spaces + ")",
\* then a space and the string of each body of B, then ")"
LambdaText(P, B) ==
    LET RECURSIVE Join(_)
        Join(i) == IF i = 0 THEN <<>>
                   ELSE IF i = 1 THEN <<P[1]>>
                   ELSE Join(i - 1) \o <<" ", P[i]>>
        RECURSIVE Bodies(_)
        Bodies(i) == IF i = 0 THEN <<>>
                     ELSE Bodies(i - 1) \o <<" ">>
                          \o ObjectToString(Cur, B[i], {})
    IN <<"(", "lambda", " ", "(">> \o Join(Len(P)) \o <<")">>
       \o Bodies(Len(B)) \o <<")">>

\* the last run returned a closure: the closure when a binding keeps it, and
\* the lambda form that made it when the run was that form
ReturnedClosure ==
    IF runs = 0 \/ last.err # "none" \/ last.val.t # "lam" THEN <<>>
    ELSE IF last.val.n \in DOMAIN lambdas
    THEN <<[P |-> lambdas[last.val.n].arg_names,
            B |-> lambdas[last.val.n].expressions]>>
    ELSE IF last.e.t = "form" /\ last.e.k[1] = S("lambda")
    THEN <<[P |-> [j \in 1..Len(last.e.k[2].k) |-> last.e.k[2].k[j].s],
            B |-> SubSeq(last.e.k, 3, Len(last.e.k))]>>
    ELSE <<>>

\* C21: the string of a closure with parameters P, of any length, the empty
\* one included, and bodies B1..Bk is "(lambda (" + the names separated by
\* single spaces + ")", then a space and the string of each Bi, then ")":
\* with no parameter it starts with "(lambda ()"
C21_LambdaToString ==
    \A c \in Range(ReturnedClosure) : last.out = LambdaText(c.P, c.B)

\* the string of a closure that has parameters is the one C21 states, and
\* the string of a closure without parameters starts with "(lambda )"
C21_ClosingBracketOverwrites ==
    \A c \in Range(ReturnedClosure) :
        /\ c.P # <<>> => last.out = LambdaText(c.P, c.B)
        /\ c.P = <<>> =>
               /\ SubSeq(last.out, 1, 4) = <<"(", "lambda", " ", ")">>
               /\ last.out = <<"(", "lambda", " ", ")">>
                             \o SubSeq(LambdaText(c.P, c.B), 6,
                                       Len(LambdaText(c.P, c.B)))

\* the defines of a name, (define name expr), that the failed run began and
\* did not finish: the events of the command with no later SetVariable of the
\* name from the same frame than the one that follows the event
FailedDefines ==
    {i \in Events({"Command"}) :
        /\ last.err # "none"
        /\ log[i].name = "define"
        /\ Len(log[i].info[1]) = 3
        /\ log[i].info[1][2].t = "sym"
        /\ ~\E j \in Events({"SetVariable"}) :
               /\ j > i + 1
               /\ log[j].name = log[i].info[1][2].s
               /\ log[j].scope = log[i].scope}

\* C24: when the value expression of (define name expr) fails, the binding
\* made before its evaluation stays: the name is bound to the empty list in
\* the frame SetVariable chose, also when it had a value before, and every
\* other binding is as it was before the define (the value expressions here
\* assign nothing)
C24_FailedDefineKeepsPlaceholder ==
    \A i \in FailedDefines :
        LET name == log[i].info[1][2].s
            before == log[i + 1].info[1]
            f == log[i + 1].slot
        IN /\ log[i + 1].op = "SetVariable"
           /\ log[i + 1].name = name
           /\ log[i + 1].info[3] = Nil
           /\ f \in DOMAIN scopes =>
                  /\ name \in DOMAIN scopes[f].variables
                  /\ scopes[f].variables[name] = Nil
           /\ Events({"SetVariable", "set!"}) \subseteq 1..(i + 1) =>
                  \A g \in DOMAIN before \cap DOMAIN scopes :
                      /\ DOMAIN scopes[g].variables
                             = DOMAIN before[g].variables
                               \cup (IF g = f THEN {name} ELSE {})
                      /\ \A n \in DOMAIN before[g].variables :
                             (g # f \/ n # name) =>
                                 scopes[g].variables[n]
                                     = before[g].variables[n]

\* (define x (car 1)) has failed when x was bound to a number and the root
\* frame had another binding: x is the empty list and the other binding stays
C24_Witness ==
    /\ last.e = DefXFails
    /\ last.err = "RuntimeError"
    /\ FailedDefines = {1}
    /\ "x" \in DOMAIN log[2].info[1][RootScope].variables
    /\ log[2].info[1][RootScope].variables["x"].t = "num"
    /\ DOMAIN log[2].info[1][RootScope].variables # {"x"}
    /\ scopes[RootScope].variables["x"] = Nil

\* a failed define in the frame of a call has reached the binding of the
\* root frame, which is the empty list after the call
C24_WitnessInCall ==
    /\ last.err = "RuntimeError"
    /\ \E i \in FailedDefines :
           /\ log[i].scope # RootScope
           /\ log[i + 1].slot = RootScope
           /\ log[i + 1].info[1][RootScope].variables["x"].t = "num"
    /\ scopes[RootScope].variables["x"] = Nil

\* the closures of heap h whose defining frame is g
ClosuresOn(h, g) == {l \in DOMAIN h.lambdas : h.lambdas[l].scope = g}

\* the evaluators bound to frame g at step p of the run: the one of the
\* top level on the root frame, and the one that a call constructed on its
\* frame ("Body") and has not destroyed ("Return", on return and unwinding)
EvaluatorsAt(g, p) ==
    (IF g = RootScope THEN 1 ELSE 0)
    + Cardinality({b \in Events({"Body"}) :
                      /\ b < p /\ log[b].scope = g
                      /\ ~\E t \in Events({"Return"}) :
                             t > b /\ t < p /\ log[t].scope = g})

\* C22: the counter of each live frame is the number of live closures whose
\* defining frame it is plus the number of evaluators bound to it, between
\* the runs and at every call during a run, also after evaluators have been
\* unwound by an error; the counter is never below zero
C22_CounterIsClosuresPlusEvaluators ==
    /\ \A g \in DOMAIN scopes :
           /\ scopes[g].refs >= 0
           /\ scopes[g].refs
                  = Cardinality(ClosuresOn(Cur, g))
                    + (IF g = RootScope THEN 1 ELSE 0)
    /\ \A p \in Events({"Prune"}) :
           \A g \in DOMAIN log[p].info[3].scopes :
               /\ log[p].info[3].scopes[g].refs >= 0
               /\ log[p].info[3].scopes[g].refs
                      = Cardinality(ClosuresOn(log[p].info[3], g))
                        + EvaluatorsAt(g, p)

\* a run has failed inside the body of a call that ran inside the body of
\* another: a frame whose evaluator was unwound is still live with counter
\* zero, the call in it saw its caller's frame with one evaluator, and a
\* frame of an earlier run is live with the closure made in it
C22_Witness ==
    /\ last.err # "none"
    /\ \E t \in Events({"Return"}) :
           /\ log[t].err # "none"
           /\ log[t].scope \in DOMAIN scopes
           /\ scopes[log[t].scope].refs = 0
    /\ \E p \in Events({"Prune"}) :
           \E g \in DOMAIN log[p].info[3].scopes \ {RootScope} :
               EvaluatorsAt(g, p) = 1
    /\ \E g \in DOMAIN scopes \ {RootScope} : ClosuresOn(Cur, g) # {}

\* the frames of local_scopes_ that pruning step p sees and whose call, of
\* the closure that prunes, has not ended
ActiveFrames(p) ==
    {i \in DOMAIN log[p].info[1] : ActiveAt(log[p].info[1][i], p)}

\* C23: the pruning step of a nested call of a closure never removes the
\* frame of a call of that closure that is still running: at every depth
\* of recursion the counter of such a frame is at least 1 when remove_if
\* reads it, and the frame is in local_scopes_ after the step; the counter
\* of a frame is at least 1 at every lookup made while its evaluator lives
C23_ActiveFramesStay ==
    /\ \A p \in Events({"Prune"}) :
           \A i \in ActiveFrames(p) :
               /\ log[p].info[2][i] >= 1
               /\ log[p + 1].op = "Registered"
               /\ log[p].info[1][i] \in Range(log[p + 1].info)
    /\ \A e \in Events({"GetVariable"}) :
           \A g \in DOMAIN log[e].info[1] \ {RootScope} :
               EvaluatorsAt(g, e) >= 1 => log[e].info[1][g].refs >= 1

\* (fact 5): the innermost call prunes while five calls of fact are running
\* and keeps their five frames
C23_Witness ==
    /\ last.e = CallFact(5)
    /\ last.err = "none"
    /\ \E p \in Events({"Prune"}) :
           /\ Cardinality(ActiveFrames(p)) = 5
           /\ \A i \in ActiveFrames(p) :
                  log[p].info[1][i] \in Range(log[p + 1].info)

=============================================================================
